---------------------------- MODULE Spec2Model ----------------------------
(***************************************************************************)
(* Verification model of the client-side SPA router of the POS system      *)
(* (classes Route and Router, src/server.js lines 20-620).                  *)
(*                                                                         *)
(* Strings are sequences of one-character strings, so that normalizePath,  *)
(* pathToRegex, extractParamNames and the regular-expression match are     *)
(* computed character by character as the JavaScript computes them.        *)
(* The router is modelled with its default options (basePath '', hashMode  *)
(* false), so getCurrentPath() is the browser's pathname and getFullPath   *)
(* is the path itself.  The opaque history `state` payload is handed       *)
(* through unchanged by the code and takes part in no decision; it is not  *)
(* represented.                                                            *)
(***************************************************************************)
EXTENDS Integers, Sequences, FiniteSets, TLC

(***************************************************************************)
(* Characters                                                              *)
(***************************************************************************)
\* the characters of the class \w that occur in the model's strings
WordChars == {"a", "b", "d", "h", "i", "j", "o", "r", "s"}

\* the two capture groups pathToRegex writes, and the anchors it adds
ParamGroup == "([^/]+)"
StarGroup == "(.*)"
AnchorStart == "^"
AnchorEnd == "$"

Null == "null"

MaxOf(S) == CHOOSE k \in S : \A j \in S : j <= k
MinOf(S) == CHOOSE k \in S : \A j \in S : k <= j

\* length of the maximal run of \w characters of s that starts at position i
RECURSIVE WordRun(_, _)
WordRun(s, i) ==
    IF i <= Len(s) /\ s[i] \in WordChars THEN 1 + WordRun(s, i + 1) ELSE 0

\* length of the maximal run of characters other than '/' that starts at i
RECURSIVE NonSlashRun(_, _)
NonSlashRun(s, i) ==
    IF i <= Len(s) /\ s[i] # "/" THEN 1 + NonSlashRun(s, i + 1) ELSE 0

(***************************************************************************)
(* class Route                                                             *)
(***************************************************************************)
\* path.replace(/:\w+/g, '([^/]+)').replace(/\*/g, '(.*)'), scanned from i
RECURSIVE ReplaceGroups(_, _)
ReplaceGroups(path, i) ==
    IF i > Len(path) THEN <<>>
    ELSE IF path[i] = ":" /\ WordRun(path, i + 1) > 0
         THEN <<ParamGroup>> \o ReplaceGroups(path, i + 1 + WordRun(path, i + 1))
    ELSE IF path[i] = "*"
         THEN <<StarGroup>> \o ReplaceGroups(path, i + 1)
    ELSE <<path[i]>> \o ReplaceGroups(path, i + 1)

\* new RegExp(`^${regexPath}$`)
pathToRegex(path) == <<AnchorStart>> \o ReplaceGroups(path, 1) \o <<AnchorEnd>>

\* path.match(/:(\w+)/g) mapped with substring(1), scanned from i
RECURSIVE ParamNamesFrom(_, _)
ParamNamesFrom(path, i) ==
    IF i > Len(path) THEN <<>>
    ELSE IF path[i] = ":" /\ WordRun(path, i + 1) > 0
         THEN <<SubSeq(path, i + 1, i + WordRun(path, i + 1))>>
                  \o ParamNamesFrom(path, i + 1 + WordRun(path, i + 1))
    ELSE ParamNamesFrom(path, i + 1)

extractParamNames(path) == ParamNamesFrom(path, 1)

NoMatch == [ok |-> FALSE, groups |-> <<>>]

\* The backtracking match of regex re from its token ti against s from
\* position si: greedy groups, the first alternative that lets the rest match.
RECURSIVE RegexFrom(_, _, _, _)
RegexFrom(re, ti, s, si) ==
    IF ti > Len(re) THEN [ok |-> TRUE, groups |-> <<>>]
    ELSE LET t == re[ti] IN
      IF t = AnchorStart
        THEN IF si = 1 THEN RegexFrom(re, ti + 1, s, si) ELSE NoMatch
      ELSE IF t = AnchorEnd
        THEN IF si = Len(s) + 1 THEN RegexFrom(re, ti + 1, s, si) ELSE NoMatch
      ELSE IF t \in {ParamGroup, StarGroup}
        THEN LET lens == IF t = ParamGroup THEN 1..NonSlashRun(s, si)
                                           ELSE 0..(Len(s) + 1 - si)
                 good == {k \in lens : RegexFrom(re, ti + 1, s, si + k).ok}
             IN  IF good = {} THEN NoMatch
                 ELSE LET k == MaxOf(good)
                          rest == RegexFrom(re, ti + 1, s, si + k)
                      IN  [ok |-> TRUE,
                           groups |-> <<SubSeq(s, si, si + k - 1)>> \o rest.groups]
      ELSE IF si <= Len(s) /\ s[si] = t
        THEN RegexFrom(re, ti + 1, s, si + 1)
        ELSE NoMatch

\* pathname.match(regex): the leftmost start position that matches
RegexMatch(re, s) ==
    LET starts == {si \in 1..(Len(s) + 1) : RegexFrom(re, 1, s, si).ok}
    IN  IF starts = {} THEN NoMatch ELSE RegexFrom(re, 1, s, MinOf(starts))

\* new Route(path, handler, options)
NewRoute(path, handler, middleware) ==
    [path |-> path, handler |-> handler, middleware |-> middleware,
     params |-> <<>>,
     regex |-> pathToRegex(path), paramNames |-> extractParamNames(path)]

\* the params object Route.match fills: name -> matches[index + 1]
ParamsOf(paramNames, groups) ==
    [n \in {paramNames[i] : i \in 1..Len(paramNames)} |->
        groups[MaxOf({i \in 1..Len(paramNames) : paramNames[i] = n})]]

\* Route.match(pathname): whether it matches, and the params it leaves
match(route, pathname) ==
    LET m == RegexMatch(route.regex, pathname)
    IN  IF m.ok THEN [ok |-> TRUE, params |-> ParamsOf(route.paramNames, m.groups)]
        ELSE [ok |-> FALSE, params |-> <<>>]


(***************************************************************************)
(* Bounds of the exploration                                               *)
(***************************************************************************)
\* start, navigate, link-click and popstate events
MaxNav == 2
\* router.use() calls
MaxMw == 2
\* router.addRoute() calls
MaxRoutes == 2

\* this.history.length > 50
HistoryLimit == 50

(***************************************************************************)
(* Inputs                                                                  *)
(***************************************************************************)
Root == <<"/">>
Dashboard == <<"/", "d", "a", "s", "h", "b", "o", "a", "r", "d">>

\* arguments of navigate(): normalized, and not ('a/' becomes '/a')
NavPaths == {Dashboard, <<"a", "/">>}
\* what a middleware call can produce: a returned value, or an exception
MwResults == {"false", "true", "undefined", "null", "zero", "throw"}
\* what a handler call (route, not-found or error handler) can produce
CallResults == {"ok", "throw"}

(***************************************************************************)
(* StateManager: keys and the fields of a new instance                     *)
(***************************************************************************)
\* the state keys explored: user is sensitive, theme is persisted
StateKeys == {"user", "theme"}
Wildcard == "*"
SubscriberKeys == StateKeys \cup {Wildcard}

\* this.sensitiveKeys of a new StateManager, among the keys explored
DefaultSensitiveKeys == <<"user">>
\* the Set that setupAutoPersistence assigns, among the keys explored
AutoPersistedKeys == {"theme"}
\* this.persistedKeys before setupAutoPersistence has run: undefined, which
\* is no set of keys
NotSet == {"undefined"}

\* localStorage.getItem(...) === null
NoItem == [t |-> "null"]

\* no operation yet on a new StateManager
NoOperation == [op |-> "new", args |-> <<>>, calls |-> <<>>, error |-> Null]

(***************************************************************************)
(* State                                                                   *)
(***************************************************************************)
VARIABLES
    routes,           \* Router.routes: the Map, as the sequence of its entries
    middlewares,      \* Router.middlewares
    currentRoute,     \* Router.currentRoute
    currentParams,    \* Router.currentParams
    notFoundHandler,  \* Router.notFoundHandler: Null or set
    errorHandler,     \* Router.errorHandler: Null or set
    listening,        \* the popstate and click listeners are installed
    history,          \* Router.history: the internal navigation log (paths)
    historyIndex,     \* Router.historyIndex (0-based, -1 when empty)
    location,         \* window.location.pathname
    bhist,            \* window.history: the session history entries
    bidx,             \* window.history: index of the current entry
    bodyClass,        \* the route-* classes of document.body (their suffixes)
    navs,             \* the handleNavigation calls made so far, one record each
    regLog,           \* the addRoute calls made so far, in call order
    found,            \* what the last direct findRoute(path) call returned
    routeObj,         \* a Route object constructed on its own
    matched,          \* what the last route.match(pathname) call returned
    arrivals,         \* the number of start, navigate, click and popstate events
    lastOk,           \* path and params of the last call whose handler completed
    state,            \* StateManager.state: its entries in property order
    subscribers,      \* StateManager.subscribers: key -> list of callbacks
    stateHistory,     \* StateManager.history, newest entry first
    persistedKeys,    \* StateManager.persistedKeys: NotSet or a set of keys
    sensitiveKeys,    \* StateManager.sensitiveKeys, in insertion order
    storage,          \* localStorage: the pos_state_<key> items
    last,             \* the last StateManager operation: its arguments, the
                      \* object and storage before it, its callback calls in
                      \* order and the error that escaped from it
    ops,              \* the number of StateManager operations made
    view,             \* a BaseView object: its flags, its tracking lists and
                      \* the content of its container
    page,             \* the document around the view: title, view class,
                      \* the listeners attached to elements, the live timers
    awaiting,         \* the init() calls suspended at `await this.onInit()`
    viewLog,          \* what has been called on the view so far
    currentView,      \* POSApp.currentView: 0 for null, or an index of views
    views,            \* the views that loadView has constructed, in order
    loads,            \* the loadView calls made so far and where each stands
    auth,             \* the AuthManager object: token, user, refreshTimer
    credentials,      \* localStorage: pos_token, pos_user, pos_refresh_token
    requests,         \* the AuthManager calls suspended at their fetch
    authLog           \* what has been called on the AuthManager so far

vars == <<routes, middlewares, currentRoute, currentParams, notFoundHandler,
          errorHandler, listening, history, historyIndex, location, bhist,
          bidx, bodyClass, navs, regLog, found, routeObj, matched, arrivals, lastOk,
          state, subscribers, stateHistory, persistedKeys, sensitiveKeys,
          storage, last, ops, view, page, awaiting, viewLog,
          currentView, views, loads, auth, credentials, requests, authLog>>

\* the variables outside the Router object and its browser
routeVars == <<routeObj, matched>>
ghostVars == <<lastOk>>
\* the StateManager object and the storage it writes
storeVars == <<state, subscribers, stateHistory, persistedKeys, sensitiveKeys,
               storage, last, ops>>
\* the view object and the page it is mounted in
viewVars == <<view, page, awaiting, viewLog>>
\* the application shell and the views it loads
appVars == <<currentView, views, loads>>
\* the AuthManager object, the credentials it stores and its requests
authVars == <<auth, credentials, requests, authLog>>

\* currentRoute = null (a path is never the empty string)
NoPath == <<>>
\* matchedRoute = null
NoRoute == NewRoute(NoPath, Null, <<>>)

\* The positions at which a handleNavigation call can be suspended (await):
\*   gmw / rmw        in a global / route middleware
\*   afterGlobal      on the promise of runMiddlewares, which returned true
\*   afterRoute       on the promise of runRouteMiddlewares, which returned true
\*   handler          in the route handler
\*   notFound         in the not-found handler (inside handleNotFound)
\*   error            in the error handler (inside handleError)
\*   done             returned
InMiddlewareOrHandler == {"gmw", "rmw", "handler"}


(***************************************************************************)
(* Router: the synchronous helpers                                         *)
(***************************************************************************)
\* Router.normalizePath
normalizePath(path) ==
    LET p1 == IF Len(path) > 1 /\ path[Len(path)] = "/"
              THEN SubSeq(path, 1, Len(path) - 1) ELSE path
    IN  IF Len(p1) = 0 \/ p1[1] # "/" THEN <<"/">> \o p1 ELSE p1

\* variant of addRoute in which a key set again moves to the end of the Map
addRouteReappend(rs, path, handler, middleware) ==
    LET other(r) == r.path # path
    IN  Append(SelectSeq(rs, other), NewRoute(path, handler, middleware))

\* Router.addRoute: Map.set keeps the position of a key that is present
addRoute(rs, path, handler, middleware) ==
    LET route == NewRoute(path, handler, middleware)
        at == {i \in 1..Len(rs) : rs[i].path = path}
    IN  IF at = {} THEN Append(rs, route)
        ELSE [rs EXCEPT ![MinOf(at)] = route]

\* Router.findRoute: the first entry, in the Map's order, whose match succeeds;
\* index 0 stands for null.  Route.match leaves the params on the route.
findRoute(rs, path) ==
    LET hits == {i \in 1..Len(rs) : match(rs[i], path).ok}
    IN  IF hits = {} THEN [index |-> 0, routes |-> rs, params |-> <<>>]
        ELSE LET i == MinOf(hits)
                 ps == match(rs[i], path).params
             IN  [index |-> i, routes |-> [rs EXCEPT ![i].params = ps],
                  params |-> ps]

\* variant of updateHistoryTracking that drops the newest entry of a full log
updateHistoryTrackingDropNewest(h, idx, path) ==
    LET pushed == Append(h, path)
    IN  IF Len(pushed) > HistoryLimit
        THEN [history |-> h, historyIndex |-> Len(h) - 1]
        ELSE [history |-> pushed, historyIndex |-> Len(pushed) - 1]

\* variant of updateHistoryTracking that keeps the index when the oldest entry
\* of a full log is dropped
updateHistoryTrackingKeepIndex(h, idx, path) ==
    LET cut == IF idx < Len(h) - 1 THEN SubSeq(h, 1, idx + 1) ELSE h
        pushed == Append(cut, path)
    IN  IF Len(pushed) > HistoryLimit
        THEN [history |-> Tail(pushed), historyIndex |-> Len(pushed) - 1]
        ELSE [history |-> pushed, historyIndex |-> Len(pushed) - 1]

\* Router.updateHistoryTracking on the log h with index idx
updateHistoryTracking(h, idx, path) ==
    LET cut == IF idx < Len(h) - 1 THEN SubSeq(h, 1, idx + 1) ELSE h
        pushed == Append(cut, path)
    IN  IF Len(pushed) > HistoryLimit
        THEN [history |-> Tail(pushed), historyIndex |-> Len(pushed) - 2]
        ELSE [history |-> pushed, historyIndex |-> Len(pushed) - 1]

\* the class updatePageMetadata adds: 'route-' + path.substring(1) with / and :
\* replaced by - (the suffix after 'route-')
RouteClass(path) ==
    [i \in 1..(Len(path) - 1) |->
        IF path[i + 1] \in {"/", ":"} THEN "-" ELSE path[i + 1]]

\* Router.updatePageMetadata: className.replace(/route-[\w-]+/g, '') drops the
\* route classes with a non-empty suffix, then classList.add(routeClass)
updatePageMetadata(classes, path) ==
    {c \in classes : Len(c) = 0} \cup {RouteClass(path)}

\* variant of the same-path test that does not look at options.force
SamePathIgnoringForce(normalizedPath, currentPath, force) ==
    normalizedPath = currentPath

\* normalizedPath === this.getCurrentPath() && !options.force
SamePath(normalizedPath, currentPath, force) ==
    normalizedPath = currentPath /\ ~force

\* variant of the test on a middleware's result that stops on any falsy value
BlocksFalsy(result) == result \in {"false", "undefined", "null", "zero"}

\* result === false
Blocks(result) == result = "false"

(***************************************************************************)
(* One handleNavigation call                                               *)
(***************************************************************************)
\* steps: what the call has invoked or emitted so far, in order
\*    <<"g", k>> / <<"r", k>>   global / route middleware k invoked
\*    <<"handler", 0>>          route handler invoked
\*    <<"routeChange", 0>>      emit('routeChange', ...)
\*    <<"notFound", 0>>         not-found handler invoked
\*    <<"fallback", 0>>         navigate('/dashboard', {replace: true}) called
\*    <<"errorHandler", 0>>     error handler invoked
\*    <<"logged", 0>>           error only logged (no error handler)
\*    <<"handlerDone", 0>>      the awaited route handler has completed
\* threw: one of the middlewares it awaited threw
\* wrote: it has assigned currentRoute and currentParams
\* rejected: its promise was rejected (an error escaped it)
\* waitFor: the calls that were suspended in a middleware or handler when it
\*          was made
NewNav(path, waitFor) ==
    [path |-> path, pc |-> "start", route |-> NoRoute, params |-> <<>>,
     mi |-> 0, steps |-> <<>>, threw |-> FALSE,
     wrote |-> FALSE, outcome |-> "pending", rejected |-> FALSE,
     waitFor |-> waitFor]

Invoke(nav, step) == [nav EXCEPT !.steps = Append(@, step)]

\* the call returns.  When nothing is left to do but return after an await on
\* one of the router's own helpers (runMiddlewares returned false, handleError
\* or handleNotFound returned), the call counts as returned at once.
Finish(nav, outcome) == [nav EXCEPT !.pc = "done", !.outcome = outcome]

\* runMiddlewares from its k-th loop iteration: invoke middleware k and await
\* it, or leave the loop and return true
runMiddlewares(nav, k) ==
    IF k <= Len(middlewares)
    THEN [Invoke(nav, middlewares[k]) EXCEPT !.pc = "gmw", !.mi = k]
    ELSE [nav EXCEPT !.pc = "afterGlobal"]

\* runRouteMiddlewares from its k-th loop iteration
runRouteMiddlewares(nav, k) ==
    IF k <= Len(nav.route.middleware)
    THEN [Invoke(nav, nav.route.middleware[k]) EXCEPT !.pc = "rmw", !.mi = k]
    ELSE [nav EXCEPT !.pc = "afterRoute"]

\* a middleware call has settled with `result`: the rest of the loop body
MiddlewareSettled(nav, result, global) ==
    LET n == [nav EXCEPT !.threw = (result = "throw")]
    IN  IF result = "throw"
        THEN Finish(n, "blocked")                 \* catch: return false
        ELSE IF Blocks(result)
        THEN Finish(n, "blocked")                 \* return false
        ELSE IF global THEN runMiddlewares(n, n.mi + 1)
                       ELSE runRouteMiddlewares(n, n.mi + 1)

\* Router.handleError, up to its await
handleError(nav) ==
    IF errorHandler # Null
    THEN [Invoke(nav, <<"errorHandler", 0>>) EXCEPT !.pc = "error"]
    ELSE Finish(Invoke(nav, <<"logged", 0>>), "error")

\* variant without the try/catch around the error handler
ErrorHandlerUncaught(nav, result) ==
    [Finish(nav, "error") EXCEPT !.rejected = (result = "throw")]

\* the error handler has settled: its exception is caught in handleError
ErrorHandlerSettled(nav, result) == Finish(nav, "error")

\* the not-found handler has settled: its exception is caught in handleNotFound
NotFoundSettled(nav, result) == Finish(nav, "unmatched")


\* variant that emits routeChange before the handler has completed
InvokeHandlerEmitFirst(nav) ==
    [Invoke(Invoke(nav, <<"routeChange", 0>>), <<"handler", 0>>)
        EXCEPT !.pc = "handler", !.wrote = TRUE]

\* this.currentRoute = path; this.currentParams = ...; then the handler is
\* invoked and awaited
InvokeHandler(nav) ==
    [Invoke(nav, <<"handler", 0>>) EXCEPT !.pc = "handler", !.wrote = TRUE]

\* the awaited handler has settled: emit and metadata, or the catch block
HandlerSettled(nav, result) ==
    IF result = "ok"
    THEN [Invoke(Invoke(nav, <<"handlerDone", 0>>), <<"routeChange", 0>>)
             EXCEPT !.pc = "done", !.outcome = "ok"]
    ELSE handleError([nav EXCEPT !.outcome = "error"])

(***************************************************************************)
(* navigate -> handleNavigation -> handleNotFound -> navigate: the part    *)
(* of a call that runs synchronously, on the record S of what it touches   *)
(***************************************************************************)
Sync ==
    [routes |-> routes, location |-> location, bhist |-> bhist, bidx |-> bidx,
     history |-> history, historyIndex |-> historyIndex, navs |-> navs]

RECURSIVE navigate(_, _, _, _, _)

\* variant of handleNotFound that always falls back to /dashboard
handleNotFoundFallbackOnly(S, id) ==
    navigate([S EXCEPT !.navs[id] =
                 Finish(Invoke(@, <<"fallback", 0>>), "unmatched")],
             Dashboard, TRUE, FALSE, FALSE)

\* variant of handleNotFound whose fallback pushes a new entry
handleNotFoundPushes(S, id) ==
    IF notFoundHandler # Null
    THEN [S EXCEPT !.navs[id] =
              [Invoke(@, <<"notFound", 0>>) EXCEPT !.pc = "notFound"]]
    ELSE navigate([S EXCEPT !.navs[id] =
                      Finish(Invoke(@, <<"fallback", 0>>), "unmatched")],
                  Dashboard, FALSE, FALSE, FALSE)

\* Router.handleNotFound for the call navs[id], up to its await
handleNotFound(S, id) ==
    IF notFoundHandler # Null
    THEN [S EXCEPT !.navs[id] =
              [Invoke(@, <<"notFound", 0>>) EXCEPT !.pc = "notFound"]]
    ELSE navigate([S EXCEPT !.navs[id] =
                      Finish(Invoke(@, <<"fallback", 0>>), "unmatched")],
                  Dashboard, TRUE, FALSE, FALSE)

\* Router.handleNavigation(path), up to its first await
handleNavigation(S, path) ==
    LET h == updateHistoryTracking(S.history, S.historyIndex, path)
        f == findRoute(S.routes, path)
        id == Len(S.navs) + 1
        nav == NewNav(path, {i \in 1..Len(S.navs) :
                                S.navs[i].pc \in InMiddlewareOrHandler})
        S1 == [S EXCEPT !.history = h.history, !.historyIndex = h.historyIndex,
                        !.routes = f.routes]
    IN  IF f.index = 0
        THEN handleNotFound(
                 [S1 EXCEPT !.navs = Append(@, [nav EXCEPT !.outcome = "unmatched"])],
                 id)
        ELSE [S1 EXCEPT !.navs = Append(@,
                 runMiddlewares([nav EXCEPT !.route = f.routes[f.index],
                                            !.params = f.params], 1))]

\* variant of navigate that pushes no entry: only a replace moves the browser
navigateWithoutPush(S, path, replace, silent, force) ==
    LET normalizedPath == normalizePath(path)
    IN  IF SamePath(normalizedPath, S.location, force) THEN S
        ELSE LET S1 == IF replace
                       THEN [S EXCEPT !.bhist[S.bidx] = normalizedPath,
                                      !.location = normalizedPath]
                       ELSE S
             IN  IF silent THEN S1 ELSE handleNavigation(S1, normalizedPath)

\* Router.navigate(path, {replace, silent, force})
navigate(S, path, replace, silent, force) ==
    LET normalizedPath == normalizePath(path)
    IN  IF SamePath(normalizedPath, S.location, force) THEN S
        ELSE LET S1 == IF replace
                       THEN [S EXCEPT !.bhist[S.bidx] = normalizedPath,
                                      !.location = normalizedPath]
                       ELSE [S EXCEPT !.bhist = Append(SubSeq(S.bhist, 1, S.bidx),
                                                       normalizedPath),
                                      !.bidx = S.bidx + 1,
                                      !.location = normalizedPath]
             IN  IF silent THEN S1 ELSE handleNavigation(S1, normalizedPath)

\* the variables take the values of S
Becomes(S) ==
    /\ routes' = S.routes
    /\ location' = S.location
    /\ bhist' = S.bhist
    /\ bidx' = S.bidx
    /\ history' = S.history
    /\ historyIndex' = S.historyIndex
    /\ navs' = S.navs


(***************************************************************************)
(* Initial state: new Router() in a page loaded at '/'                     *)
(***************************************************************************)
\* container.innerHTML = ''
Blank == "blank"
\* container.innerHTML after a render
Rendered == "rendered"

\* new StateManager() on an empty localStorage
NewStore ==
    /\ state = <<>>
    /\ subscribers = [k \in SubscriberKeys |-> <<>>]
    /\ stateHistory = <<>>
    /\ persistedKeys = NotSet
    /\ sensitiveKeys = DefaultSensitiveKeys
    /\ storage = [k \in StateKeys |-> NoItem]
    /\ last = NoOperation
    /\ ops = 0

\* the fields that the BaseView constructor sets
FreshView ==
    [isInitialized |-> FALSE, isDestroyed |-> FALSE,
     eventListeners |-> <<>>, timeouts |-> <<>>, intervals |-> <<>>,
     container |-> Blank]

\* a document without title, view class, listeners or timers of a view;
\* keydown holds the functions that listen to 'keydown' on the document
FreshPage ==
    [title |-> FALSE, viewClass |-> FALSE, listeners |-> {},
     timeouts |-> {}, intervals |-> {}, keydown |-> {}]

\* new AuthManager(app): no session, nothing stored, no request made
NewAuth ==
    /\ auth = [token |-> Null, user |-> Null, refreshTimer |-> FALSE]
    /\ credentials = [pos_token |-> Null, pos_user |-> Null,
                      pos_refresh_token |-> Null]
    /\ requests = [login |-> 0, logout |-> 0, refresh |-> 0]
    /\ authLog = [op |-> "new", calls |-> 0, loggedOut |-> FALSE]

\* new POSApp(): no view is loaded
NewApp ==
    /\ NewAuth
    /\ currentView = 0
    /\ views = <<>>
    /\ loads = <<>>

\* new BaseView(container, app) in a page that shows no view yet
NewView ==
    /\ NewApp
    /\ view = FreshView
    /\ page = FreshPage
    /\ awaiting = 0
    /\ viewLog = [op |-> "new", initCalls |-> 0, destroyCalls |-> 0,
                  onInitRuns |-> 0, onDestroyRuns |-> 0, cleared |-> 0,
                  rejected |-> FALSE, made |-> 0, stale |-> {}, late |-> FALSE,
                  caught |-> FALSE, error |-> FALSE,
                  thrown |-> Null, initError |-> Null,
                  binds |-> 0, afterDestroy |-> FALSE]

NoFound == [path |-> NoPath, index |-> 0, route |-> NoRoute, params |-> <<>>]
NoMatched == [pathname |-> NoPath, ok |-> FALSE, params |-> <<>>]

\* the router after its construction
NewRouter ==
    /\ routes = <<>>
    /\ middlewares = <<>>
    /\ currentRoute = NoPath
    /\ currentParams = <<>>
    /\ notFoundHandler = Null
    /\ errorHandler = Null
    /\ listening = FALSE
    /\ history = <<>>
    /\ historyIndex = -1
    /\ location = Root
    /\ bhist = <<Root>>
    /\ bidx = 1
    /\ bodyClass = {}
    /\ navs = <<>>
    /\ regLog = <<>>
    /\ found = NoFound
    /\ routeObj = NoRoute
    /\ matched = NoMatched
    /\ arrivals = 0
    /\ lastOk = [path |-> NoPath, params |-> <<>>]

Init ==
    /\ NewRouter
    /\ NewView
    /\ NewStore

(***************************************************************************)
(* Configuration                                                           *)
(***************************************************************************)
\* The router is configured before it is used, as POSApp.setupRouting does.
Configuring == arrivals = 0

\* router.addRoute(path, handler, {middleware})
AddRoute(path, handler, middleware) ==
    /\ Configuring
    /\ Len(regLog) < MaxRoutes
    /\ routes' = addRoute(routes, path, handler, middleware)
    /\ regLog' = Append(regLog, [path |-> path, handler |-> handler])
    /\ UNCHANGED <<middlewares, currentRoute, currentParams, notFoundHandler,
                   errorHandler, listening, history, historyIndex, location,
                   bhist, bidx, bodyClass, navs, found, routeVars, arrivals, ghostVars, storeVars, viewVars, appVars, authVars>>

\* router.use(middleware): only a function is pushed
Use(isFunction) ==
    /\ Configuring
    /\ Len(middlewares) < MaxMw
    /\ middlewares' = IF isFunction
                      THEN Append(middlewares, <<"g", Len(middlewares) + 1>>)
                      ELSE middlewares
    /\ UNCHANGED <<routes, currentRoute, currentParams, notFoundHandler,
                   errorHandler, listening, history, historyIndex, location,
                   bhist, bidx, bodyClass, navs, regLog, found, routeVars, arrivals, ghostVars, storeVars, viewVars, appVars, authVars>>

\* router.setNotFoundHandler(handler)
SetNotFoundHandler ==
    /\ Configuring
    /\ notFoundHandler = Null
    /\ notFoundHandler' = "notFoundHandler"
    /\ UNCHANGED <<routes, middlewares, currentRoute, currentParams,
                   errorHandler, listening, history, historyIndex, location,
                   bhist, bidx, bodyClass, navs, regLog, found, routeVars, arrivals, ghostVars, storeVars, viewVars, appVars, authVars>>

\* router.setErrorHandler(handler)
SetErrorHandler ==
    /\ Configuring
    /\ errorHandler = Null
    /\ errorHandler' = "errorHandler"
    /\ UNCHANGED <<routes, middlewares, currentRoute, currentParams,
                   notFoundHandler, listening, history, historyIndex, location,
                   bhist, bidx, bodyClass, navs, regLog, found, routeVars, arrivals, ghostVars, storeVars, viewVars, appVars, authVars>>

(***************************************************************************)
(* Calls and browser events that start a navigation                        *)
(***************************************************************************)
unchangedBySync ==
    /\ arrivals' = arrivals + 1
    /\ UNCHANGED <<middlewares, currentRoute, currentParams, notFoundHandler,
                   errorHandler, bodyClass, regLog, found, routeVars,
                   ghostVars, storeVars, viewVars, appVars, authVars>>

\* router.start(): install the listeners, resolve the current path
Start ==
    /\ ~listening
    /\ arrivals < MaxNav
    /\ listening' = TRUE
    /\ Becomes(handleNavigation(Sync, location))
    /\ unchangedBySync

\* router.navigate(path, {replace, silent, force})
Navigate(path, replace, silent, force) ==
    /\ arrivals < MaxNav
    /\ Becomes(navigate(Sync, path, replace, silent, force))
    /\ UNCHANGED listening
    /\ unchangedBySync

\* a click on an in-app link: handleLinkClick calls navigate(path)
LinkClick(path) ==
    /\ listening
    /\ arrivals < MaxNav
    /\ Becomes(navigate(Sync, path, FALSE, FALSE, FALSE))
    /\ UNCHANGED listening
    /\ unchangedBySync

\* the user goes back (-1) or forward (+1): the browser moves to that entry
\* and fires popstate; handlePopState resolves the path without pushing
PopState(delta) ==
    /\ arrivals < MaxNav
    /\ bidx + delta \in 1..Len(bhist)
    /\ LET moved == [Sync EXCEPT !.bidx = bidx + delta,
                                 !.location = bhist[bidx + delta]]
       IN  Becomes(IF listening THEN handleNavigation(moved, moved.location)
                   ELSE moved)
    /\ UNCHANGED listening
    /\ unchangedBySync

(***************************************************************************)
(* The continuations of a suspended handleNavigation call                  *)
(***************************************************************************)
unchangedByStep ==
    UNCHANGED <<routes, middlewares, notFoundHandler, errorHandler, listening,
                history, historyIndex, location, bhist, bidx, regLog, found,
                routeVars, arrivals, storeVars, viewVars, appVars, authVars>>

\* the route is entered: currentRoute and currentParams are assigned and the
\* handler is invoked
EnterRoute(i) ==
    /\ currentRoute' = navs[i].path
    /\ currentParams' = navs[i].params
    /\ navs' = [navs EXCEPT ![i] = InvokeHandler(@)]
    /\ UNCHANGED <<bodyClass, lastOk>>

\* a global middleware returns or throws
GlobalMiddlewareReturn(i, result) ==
    /\ i <= Len(navs)
    /\ navs[i].pc = "gmw"
    /\ navs' = [navs EXCEPT ![i] = MiddlewareSettled(@, result, TRUE)]
    /\ UNCHANGED <<currentRoute, currentParams, bodyClass, lastOk>>
    /\ unchangedByStep

\* handleNavigation resumes with the result of runMiddlewares
AfterGlobal(i) ==
    /\ i <= Len(navs)
    /\ navs[i].pc = "afterGlobal"
    /\ IF Len(navs[i].route.middleware) > 0
       THEN /\ navs' = [navs EXCEPT ![i] = runRouteMiddlewares(@, 1)]
            /\ UNCHANGED <<currentRoute, currentParams, bodyClass, lastOk>>
       ELSE EnterRoute(i)
    /\ unchangedByStep

\* a route middleware returns or throws
RouteMiddlewareReturn(i, result) ==
    /\ i <= Len(navs)
    /\ navs[i].pc = "rmw"
    /\ navs' = [navs EXCEPT ![i] = MiddlewareSettled(@, result, FALSE)]
    /\ UNCHANGED <<currentRoute, currentParams, bodyClass, lastOk>>
    /\ unchangedByStep

\* handleNavigation resumes with the result of runRouteMiddlewares
AfterRoute(i) ==
    /\ i <= Len(navs)
    /\ navs[i].pc = "afterRoute"
    /\ EnterRoute(i)
    /\ unchangedByStep

\* the route handler completes or fails
HandlerReturn(i, result) ==
    /\ i <= Len(navs)
    /\ navs[i].pc = "handler"
    /\ navs' = [navs EXCEPT ![i] = HandlerSettled(@, result)]
    /\ bodyClass' = IF result = "ok"
                    THEN updatePageMetadata(bodyClass, navs[i].path)
                    ELSE bodyClass
    /\ lastOk' = IF result = "ok"
                 THEN [path |-> navs[i].path, params |-> navs[i].params]
                 ELSE lastOk
    /\ UNCHANGED <<currentRoute, currentParams>>
    /\ unchangedByStep

\* the error handler completes or fails
ErrorHandlerReturn(i, result) ==
    /\ i <= Len(navs)
    /\ navs[i].pc = "error"
    /\ navs' = [navs EXCEPT ![i] = ErrorHandlerSettled(@, result)]
    /\ UNCHANGED <<currentRoute, currentParams, bodyClass, lastOk>>
    /\ unchangedByStep

\* the not-found handler completes or fails
NotFoundReturn(i, result) ==
    /\ i <= Len(navs)
    /\ navs[i].pc = "notFound"
    /\ navs' = [navs EXCEPT ![i] = NotFoundSettled(@, result)]
    /\ UNCHANGED <<currentRoute, currentParams, bodyClass, lastOk>>
    /\ unchangedByStep

(***************************************************************************)
(* The router with its browser                                             *)
(***************************************************************************)
\* an arrival makes at most two handleNavigation calls (the unmatched path and
\* the fallback)
NavIds == 1..(2 * MaxNav)

Next ==
    \/ AddRoute(Dashboard, "h1", <<>>)
    \/ AddRoute(<<"/", ":", "i">>, "h1", <<<<"r", 1>>, <<"r", 2>>>>)
    \/ \E f \in BOOLEAN : Use(f)
    \/ SetNotFoundHandler
    \/ SetErrorHandler
    \/ Start
    \/ \E p \in NavPaths, r \in BOOLEAN, s \in BOOLEAN, f \in BOOLEAN :
           Navigate(p, r, s, f)
    \/ \E p \in NavPaths : LinkClick(p)
    \/ \E d \in {-1, 1} : PopState(d)
    \/ \E i \in NavIds, r \in MwResults : GlobalMiddlewareReturn(i, r)
    \/ \E i \in NavIds : AfterGlobal(i)
    \/ \E i \in NavIds, r \in MwResults : RouteMiddlewareReturn(i, r)
    \/ \E i \in NavIds : AfterRoute(i)
    \/ \E i \in NavIds, r \in CallResults : HandlerReturn(i, r)
    \/ \E i \in NavIds, r \in CallResults : ErrorHandlerReturn(i, r)
    \/ \E i \in NavIds, r \in CallResults : NotFoundReturn(i, r)

Spec == Init /\ [][Next]_vars


(***************************************************************************)
(* The route table alone: registrations and lookups                        *)
(***************************************************************************)
\* registrations explored (addRoute calls)
MaxRegs == 3

Handlers == {"h1", "h2"}

TablePatterns ==
    { <<"/", "a", "/", ":", "i">>, <<"/", "a", "/", "b">>,
      <<"/", ":", "i">>, <<"/", "*">> }

TablePaths ==
    { <<"/", "a", "/", "b">>, <<"/", "a", "/", "a">>, <<"/", "a">>, <<"/">>,
      <<"/", "b", "/", "a", "/", "b">> }

unchangedByTable ==
    UNCHANGED <<middlewares, currentRoute, currentParams, notFoundHandler,
                errorHandler, listening, history, historyIndex, location, bhist,
                bidx, bodyClass, navs, routeVars, arrivals, ghostVars, storeVars, viewVars, appVars, authVars>>

\* router.addRoute(path, handler)
RegisterRoute(path, handler) ==
    /\ Len(regLog) < MaxRegs
    /\ routes' = addRoute(routes, path, handler, <<>>)
    /\ regLog' = Append(regLog, [path |-> path, handler |-> handler])
    /\ UNCHANGED found
    /\ unchangedByTable

\* router.findRoute(path); found keeps what it returned
FindRoute(path) ==
    /\ LET f == findRoute(routes, path)
       IN  /\ routes' = f.routes
           /\ found' = [path |-> path, index |-> f.index,
                        route |-> IF f.index = 0 THEN NoRoute ELSE f.routes[f.index],
                        params |-> f.params]
    /\ UNCHANGED regLog
    /\ unchangedByTable

NextTable ==
    \/ \E path \in TablePatterns, handler \in Handlers : RegisterRoute(path, handler)
    \/ \E path \in TablePaths : FindRoute(path)

SpecTable == Init /\ [][NextTable]_vars

(***************************************************************************)
(* One Route alone: construction and match                                 *)
(***************************************************************************)
\* segments of a pattern
MaxSegs == 2
\* characters of a path
MaxPathLen == 4

Segments == { <<"a">>, <<"b">>, <<":", "i">>, <<":", "j">>, <<"*">> }
PathChars == {"/", "a", "b"}

RECURSIVE PatternsOf(_)
PatternsOf(n) ==
    IF n = 0 THEN {<<>>}
    ELSE {p \o <<"/">> \o seg : p \in PatternsOf(n - 1), seg \in Segments}

\* the patterns whose parameter names are all different
RoutePatterns ==
    { p \in UNION {PatternsOf(n) : n \in 1..MaxSegs} :
        \A x, y \in 1..Len(extractParamNames(p)) :
            extractParamNames(p)[x] = extractParamNames(p)[y] => x = y }

RoutePaths == UNION {[1..n -> PathChars] : n \in 1..MaxPathLen}

unchangedByRoute ==
    UNCHANGED <<routes, middlewares, currentRoute, currentParams,
                notFoundHandler, errorHandler, listening, history, historyIndex,
                location, bhist, bidx, bodyClass, navs, regLog, found, arrivals,
                ghostVars, storeVars, viewVars, appVars, authVars>>

\* routeObj = new Route(path, handler)
Construct(path) ==
    /\ routeObj' = NewRoute(path, "h1", <<>>)
    /\ matched' = NoMatched
    /\ unchangedByRoute

\* routeObj.match(pathname); matched keeps the call and what it left
Match(pathname) ==
    /\ routeObj # NoRoute
    /\ LET m == match(routeObj, pathname)
       IN  /\ matched' = [pathname |-> pathname, ok |-> m.ok, params |-> m.params]
           /\ routeObj' = IF m.ok THEN [routeObj EXCEPT !.params = m.params]
                                  ELSE routeObj
    /\ unchangedByRoute

NextRoute ==
    \/ \E path \in RoutePatterns : Construct(path)
    \/ \E pathname \in RoutePaths : Match(pathname)

SpecRoute == Init /\ [][NextRoute]_vars

(***************************************************************************)
(* The navigation log of a router that has been in use                     *)
(***************************************************************************)
\* lengths of the log at the start
LogStarts == {HistoryLimit - 1, HistoryLimit}

\* the log after n resolutions that alternated between /a, which no route
\* matches, and the fallback to /dashboard
UsedLog(n) ==
    [i \in 1..n |-> IF (n - i) % 2 = 0 THEN Dashboard ELSE <<"/", "a">>]

\* A router with one global middleware and the route /dashboard, after
\* navigate(..., {replace: true}) calls that have all returned; the calls that
\* have returned are not kept in navs.
InitLog ==
    /\ NewView
    /\ routes = <<NewRoute(Dashboard, "h1", <<>>)>>
    /\ middlewares = <<<<"g", 1>>>>
    /\ currentRoute = Dashboard
    /\ currentParams = <<>>
    /\ notFoundHandler = Null
    /\ errorHandler = Null
    /\ listening = FALSE
    /\ \E n \in LogStarts : history = UsedLog(n) /\ historyIndex = n - 1
    /\ location = Dashboard
    /\ bhist = <<Dashboard>>
    /\ bidx = 1
    /\ bodyClass = {RouteClass(Dashboard)}
    /\ navs = <<>>
    /\ regLog = <<[path |-> Dashboard, handler |-> "h1"]>>
    /\ found = NoFound
    /\ routeObj = NoRoute
    /\ matched = NoMatched
    /\ arrivals = 0
    /\ lastOk = [path |-> Dashboard, params |-> <<>>]
    /\ NewStore

NextLog ==
    \/ Start
    \/ \E path \in NavPaths, replace \in BOOLEAN, silent \in BOOLEAN, force \in BOOLEAN :
           Navigate(path, replace, silent, force)
    \/ \E path \in NavPaths : LinkClick(path)
    \/ \E delta \in {-1, 1} : PopState(delta)
    \/ \E i \in NavIds, result \in MwResults : GlobalMiddlewareReturn(i, result)
    \/ \E i \in NavIds : AfterGlobal(i)
    \/ \E i \in NavIds, result \in CallResults : HandlerReturn(i, result)

SpecLog == InitLog /\ [][NextLog]_vars

-----------------------------------------------------------------------------
\* The navigation log with goForward and clearHistory

\* Router.canGoForward on the log h with index idx
canGoForward(h, idx) == idx < Len(h) - 1

\* router.goForward(): window.history.forward() when canGoForward(); the
\* browser then moves to its next entry, if it has one, and fires popstate
GoForward ==
    /\ arrivals < MaxNav
    /\ LET moved == [Sync EXCEPT !.bidx = bidx + 1,
                                 !.location = bhist[bidx + 1]]
       IN  Becomes(IF canGoForward(history, historyIndex) /\ bidx < Len(bhist)
                   THEN IF listening THEN handleNavigation(moved, moved.location)
                        ELSE moved
                   ELSE Sync)
    /\ UNCHANGED listening
    /\ unchangedBySync

\* router.clearHistory()
ClearHistory ==
    /\ arrivals < MaxNav
    /\ history' = <<>>
    /\ historyIndex' = -1
    /\ UNCHANGED <<routes, location, bhist, bidx, navs, listening>>
    /\ unchangedBySync

NextForward ==
    \/ NextLog
    \/ GoForward
    \/ ClearHistory

SpecForward == InitLog /\ [][NextForward]_vars

(***************************************************************************)
(* StateManager: values                                                    *)
(***************************************************************************)
\* JavaScript values: undefined, null, numbers, and objects, which have an
\* identity (ref) and own properties in order
Undefined == [t |-> "undefined"]
JsNull == [t |-> "null"]
Num(n) == [t |-> "number", v |-> n]
Obj(ref, id) ==
    [t |-> "object", ref |-> ref, isArray |-> FALSE, props |-> <<<<"id", Num(id)>>>>]

\* the object a JSON.parse call creates is a new one
ParsedRef == 0

\* the values given to setState and batchUpdate: a number, two distinct objects
\* {id: 1} and an object {id: 2}
StateValues == {Num(1), Obj(1, 1), Obj(2, 1), Obj(3, 2)}

\* typeof v
TypeOf(v) == IF v.t = "null" THEN "object" ELSE v.t
\* a === b
StrictEqual(a, b) ==
    IF a.t = "object" /\ b.t = "object" THEN a.ref = b.ref ELSE a = b
\* v == null
Nullish(v) == v.t \in {"undefined", "null"}
\* Object.keys(v)
KeysOf(v) == [i \in 1..Len(v.props) |-> v.props[i][1]]
\* v[name] of an object that has the property
Prop(v, name) ==
    v.props[CHOOSE i \in 1..Len(v.props) : v.props[i][1] = name][2]

\* a deepEqual that stops after its first test, a === b
deepEqualByReference(a, b) == StrictEqual(a, b)

\* a deepEqual that finds every two values different
deepEqualNever(a, b) == FALSE

\* StateManager.deepEqual
RECURSIVE deepEqual(_, _)
deepEqual(a, b) ==
    IF StrictEqual(a, b) THEN TRUE
    ELSE IF Nullish(a) \/ Nullish(b) THEN FALSE
    ELSE IF TypeOf(a) # TypeOf(b) THEN FALSE
    ELSE IF TypeOf(a) # "object" THEN StrictEqual(a, b)
    ELSE IF a.isArray # b.isArray THEN FALSE
    ELSE IF Len(KeysOf(a)) # Len(KeysOf(b)) THEN FALSE
    ELSE \A i \in 1..Len(KeysOf(a)) :
            /\ \E j \in 1..Len(KeysOf(b)) : KeysOf(b)[j] = KeysOf(a)[i]
            /\ deepEqual(Prop(a, KeysOf(a)[i]), Prop(b, KeysOf(a)[i]))

\* JSON.stringify(v): the text, given by what it denotes; an object's identity
\* is not part of it.  JSON.stringify(undefined) is undefined, which
\* localStorage.setItem stores as the text 'undefined'.
JSONstringify(v) ==
    IF v.t = "object" THEN [t |-> "object", isArray |-> v.isArray, props |-> v.props]
    ELSE v

\* JSON.parse(text): a new value, or a SyntaxError
JSONparse(text) ==
    IF text.t = "undefined" THEN [ok |-> FALSE, value |-> Undefined]
    ELSE IF text.t = "object"
    THEN [ok |-> TRUE,
          value |-> [t |-> "object", ref |-> ParsedRef,
                     isArray |-> text.isArray, props |-> text.props]]
    ELSE [ok |-> TRUE, value |-> text]

(***************************************************************************)
(* StateManager: the state object                                          *)
(***************************************************************************)
\* key in st
InState(st, key) == \E i \in 1..Len(st) : st[i].key = key
\* st[key]
ValueOf(st, key) ==
    IF InState(st, key)
    THEN st[CHOOSE i \in 1..Len(st) : st[i].key = key].value
    ELSE Undefined
\* st[key] = value: a present property keeps its place, a new one comes last
Assign(st, key, value) ==
    IF InState(st, key)
    THEN [i \in 1..Len(st) |-> IF st[i].key = key
                               THEN [key |-> key, value |-> value] ELSE st[i]]
    ELSE Append(st, [key |-> key, value |-> value])
\* delete st[key]
Delete(st, key) ==
    LET other(e) == e.key # key IN SelectSeq(st, other)

(***************************************************************************)
(* StateManager: the methods, on the record S of the object, the storage   *)
(* and what the running operation has done                                 *)
(***************************************************************************)
\* this.maxHistorySize
MaxHistorySize == 50

\* the functions given to subscribe: one that returns, one that throws, and
\* one that unsubscribes itself from the list it is called from and returns
Callbacks == {"returns", "throws", "unsubscribes"}
\* the function addValidator subscribes, around a validator that throws: the
\* try/catch inside it makes it return
Validator == "validator"
\* a function subscribed to ReentrantFrom that calls setState(ReentrantTo,
\* newValue) when it is called
Setter == "sets"
ReentrantFrom == "user"
ReentrantTo == "theme"
\* the compute functions given to addComputed(DerivedKey, ..., [Dependency]):
\* one that returns the value of the dependency, one that throws, and one that
\* returns 1 while the dependency is not in the state and throws when it is;
\* as callbacks they stand for the recompute function around them
ComputeFns == {"computes", "fails", "failsLater"}
DerivedKey == "theme"
Dependency == "user"
Compute(fn, st) ==
    CASE fn = "computes" -> [threw |-> FALSE, value |-> ValueOf(st, Dependency)]
      [] fn = "fails" -> [threw |-> TRUE, value |-> Undefined]
      [] fn = "failsLater" ->
             IF InState(st, Dependency) THEN [threw |-> TRUE, value |-> Undefined]
             ELSE [threw |-> FALSE, value |-> Num(1)]
\* the subscribers that POSApp.setupStateSubscriptions installs: the one of
\* 'user', which calls handleAuthChange(!!user), and the one of
\* 'networkStatus', which calls handleNetworkStatusChange(isOnline)
AuthSubscriber == "authChange"
NetworkSubscriber == "networkChange"
\* the key that stands for 'networkStatus' among the keys explored
NetworkKey == "theme"
\* the values of 'user' after a logout: null and 0
LoggedOutValues == {[t |-> "null"], Num(0)}
\* !value
Falsy(v) == Nullish(v) \/ v = Num(0)
\* the callback calls of one operation after which the call stack is
\* exhausted: the next callback throws a RangeError
StackLimit == 5

Behaviour(callback) ==
    CASE callback = "returns" -> "return"
      [] callback = "throws" -> "throw"
      [] callback = "unsubscribes" -> "unsubscribe"
      [] callback = Validator -> "return"
      [] callback = Setter -> "set"
      [] callback \in ComputeFns -> "compute"
      [] callback = AuthSubscriber -> "auth"
      [] callback = NetworkSubscriber -> "network"

\* S.calls: the callback calls of the running operation, in order, each with
\* its arguments, the state at the time of the call (what getState() returns
\* to it) and the storage at that time.  S.error: the error that has escaped,
\* or Null.
Store ==
    [state |-> state, subscribers |-> subscribers, history |-> stateHistory,
     persistedKeys |-> persistedKeys, sensitiveKeys |-> sensitiveKeys,
     storage |-> storage, calls |-> <<>>, error |-> Null]

\* StateManager.unsubscribe: splice out the first occurrence
unsubscribe(subs, key, callback) ==
    LET list == subs[key]
        at == {i \in 1..Len(list) : list[i] = callback}
    IN  IF at = {} THEN subs
        ELSE [subs EXCEPT ![key] = SubSeq(list, 1, MinOf(at) - 1)
                                     \o SubSeq(list, MinOf(at) + 1, Len(list))]

RECURSIVE setState(_, _, _)
RECURSIVE clearSensitiveData(_)

\* POSApp.handleAuthChange: clearSensitiveData() when not authenticated
handleAuthChange(S, isAuthenticated) ==
    IF isAuthenticated THEN S ELSE clearSensitiveData(S)

\* POSApp.handleNetworkStatusChange: setState('networkStatus', isOnline)
handleNetworkStatusChange(S, isOnline) == setState(S, NetworkKey, isOnline)

\* what a subscriber of POSApp does with the value it is called with
AppSubscriber(S, callback, newValue) ==
    IF Behaviour(callback) = "auth"
    THEN handleAuthChange(S, ~Falsy(newValue))
    ELSE handleNetworkStatusChange(S, newValue)

\* addComputed, recompute: computeFn(this.getState()) and setState(key,
\* result) inside a try/catch; the call of the compute function is recorded
recompute(S, fn) ==
    LET result == Compute(fn, S.state)
        call == [callback |-> fn, list |-> "computeFn", key |-> DerivedKey,
                 newValue |-> result.value,
                 oldValue |-> ValueOf(S.state, DerivedKey),
                 snapshot |-> S.state, stored |-> S.storage,
                 threw |-> result.threw]
        S1 == [S EXCEPT !.calls = Append(@, call)]
    IN  IF result.threw THEN S1
        ELSE [setState(S1, DerivedKey, result.value) EXCEPT !.error = Null]

\* the call of a callback without the try/catch around it: what the callback
\* throws escapes
CallSubscriberUncaught(S, list, callback, key, newValue, oldValue) ==
    LET call == [callback |-> callback, list |-> list, key |-> key,
                 newValue |-> newValue, oldValue |-> oldValue,
                 snapshot |-> S.state, stored |-> S.storage,
                 threw |-> (Behaviour(callback) = "throw")]
        S1 == [S EXCEPT !.calls = Append(@, call)]
    IN  IF Behaviour(callback) = "unsubscribe"
        THEN [S1 EXCEPT !.subscribers = unsubscribe(@, list, callback)]
        ELSE IF Behaviour(callback) = "throw"
        THEN [S1 EXCEPT !.error = "Error"]
        ELSE IF Behaviour(callback) = "set"
        THEN setState(S1, ReentrantTo, newValue)
        ELSE IF Behaviour(callback) = "compute"
        THEN recompute(S1, callback)
        ELSE S1

\* one call of a callback inside try/catch
CallSubscriber(S, list, callback, key, newValue, oldValue) ==
    LET call == [callback |-> callback, list |-> list, key |-> key,
                 newValue |-> newValue, oldValue |-> oldValue,
                 snapshot |-> S.state, stored |-> S.storage,
                 threw |-> (Behaviour(callback) = "throw")]
        S1 == [S EXCEPT !.calls = Append(@, call)]
        \* the callback calls setState; an error that leaves this setState
        \* leaves the callback and is caught here
        S2 == setState(S1, ReentrantTo, newValue)
    IN  IF Behaviour(callback) = "unsubscribe"
        THEN [S1 EXCEPT !.subscribers = unsubscribe(@, list, callback)]
        ELSE IF Behaviour(callback) = "set"
        THEN [S2 EXCEPT !.error = Null,
                        !.calls[Len(S1.calls)].threw = (S2.error # Null)]
        ELSE IF Behaviour(callback) = "compute"
        THEN recompute(S1, callback)
        ELSE IF Behaviour(callback) \in {"auth", "network"}
        THEN IF Len(S.calls) >= StackLimit
             THEN [S1 EXCEPT !.calls[Len(S1.calls)].threw = TRUE]
             ELSE LET S3 == AppSubscriber(S1, callback, newValue)
                  IN  [S3 EXCEPT !.error = Null,
                                 !.calls[Len(S1.calls)].threw = (S3.error # Null)]
        ELSE S1

\* this.subscribers[list].forEach(...) from index i: forEach visits the indices
\* below the length the array had at the start that are still in the array,
\* and an error that escapes a call ends it
RECURSIVE forEachSubscriber(_, _, _, _, _, _, _)
forEachSubscriber(S, list, i, len, key, newValue, oldValue) ==
    IF i > len \/ i > Len(S.subscribers[list]) \/ S.error # Null THEN S
    ELSE forEachSubscriber(
             CallSubscriber(S, list, S.subscribers[list][i], key, newValue,
                            oldValue),
             list, i + 1, len, key, newValue, oldValue)

\* StateManager.notifySubscribers
notifySubscribers(S, key, newValue, oldValue) ==
    LET S1 == forEachSubscriber(S, key, 1, Len(S.subscribers[key]), key,
                                newValue, oldValue)
    IN  forEachSubscriber(S1, Wildcard, 1, Len(S1.subscribers[Wildcard]), key,
                          newValue, oldValue)

\* an addToHistory that cuts a log that is too long at its front
addToHistoryKeepOldest(h, key, oldValue, newValue) ==
    LET pushed == <<[key |-> key, oldValue |-> oldValue, newValue |-> newValue]>> \o h
    IN  IF Len(pushed) > MaxHistorySize
        THEN SubSeq(pushed, Len(pushed) - MaxHistorySize + 1, Len(pushed))
        ELSE pushed

\* StateManager.addToHistory (the timestamp is left out)
addToHistory(h, key, oldValue, newValue) ==
    LET pushed == <<[key |-> key, oldValue |-> oldValue, newValue |-> newValue]>> \o h
    IN  IF Len(pushed) > MaxHistorySize THEN SubSeq(pushed, 1, MaxHistorySize)
        ELSE pushed

\* StateManager.persistState
persistState(S, key, value) ==
    [S EXCEPT !.storage[key] = JSONstringify(value)]

\* StateManager.autoPersist: this.persistedKeys.has(key) throws a TypeError
\* while persistedKeys is undefined
autoPersist(S, key, value) ==
    IF S.persistedKeys = NotSet THEN [S EXCEPT !.error = "TypeError"]
    ELSE IF key \in S.persistedKeys THEN persistState(S, key, value)
    ELSE S

\* StateManager.removePersisted
removePersisted(S, key) == [S EXCEPT !.storage[key] = NoItem]

\* StateManager.clearPersistence
clearPersistence(S, keysToKeep) ==
    [S EXCEPT !.storage =
        [k \in StateKeys |->
            IF \E i \in 1..Len(keysToKeep) : keysToKeep[i] = k
            THEN S.storage[k] ELSE NoItem]]

\* StateManager.setState
setState(S, key, value) ==
    LET oldValue == ValueOf(S.state, key)
    IN  IF deepEqual(oldValue, value) THEN S
        ELSE LET S1 == [S EXCEPT !.history = addToHistory(@, key, oldValue, value),
                                 !.state = Assign(@, key, value)]
                 S2 == notifySubscribers(S1, key, value, oldValue)
             IN  autoPersist(S2, key, value)

\* StateManager.removeState
removeState(S, key) ==
    IF ~InState(S.state, key) THEN S
    ELSE LET oldValue == ValueOf(S.state, key)
             S1 == [S EXCEPT !.state = Delete(@, key),
                             !.history = addToHistory(@, key, oldValue, Undefined)]
             S2 == notifySubscribers(S1, key, Undefined, oldValue)
         IN  removePersisted(S2, key)

\* a subscribe that registers the callback and does not call it
subscribeWithoutCall(S, key, callback) ==
    [S EXCEPT !.subscribers[key] = Append(@, callback)]

\* StateManager.subscribe.  The callback that unsubscribes itself calls the
\* function subscribe returns to its subscriber; during the immediate call
\* that function is not there yet, the call of undefined throws inside the
\* callback and the try/catch of subscribe catches it.
subscribe(S, key, callback) ==
    LET S1 == [S EXCEPT !.subscribers[key] = Append(@, callback)]
        value == ValueOf(S1.state, key)
        early == [callback |-> callback, list |-> key, key |-> key,
                  newValue |-> value, oldValue |-> Undefined,
                  snapshot |-> S1.state, stored |-> S1.storage, threw |-> TRUE]
    IN  IF ~InState(S1.state, key) THEN S1
        ELSE IF Behaviour(callback) = "unsubscribe"
        THEN [S1 EXCEPT !.calls = Append(@, early)]
        ELSE CallSubscriber(S1, key, callback, key, value, Undefined)

\* a recompute without its try/catch
recomputeUncaught(S, fn) ==
    LET result == Compute(fn, S.state)
        call == [callback |-> fn, list |-> "computeFn", key |-> DerivedKey,
                 newValue |-> result.value,
                 oldValue |-> ValueOf(S.state, DerivedKey),
                 snapshot |-> S.state, stored |-> S.storage,
                 threw |-> result.threw]
        S1 == [S EXCEPT !.calls = Append(@, call)]
    IN  IF result.threw THEN [S1 EXCEPT !.error = "Error"]
        ELSE setState(S1, DerivedKey, result.value)

\* StateManager.addComputed(DerivedKey, fn, [Dependency]): the initial
\* computation, then the subscription of recompute to the dependency
addComputed(S, fn) == subscribe(recompute(S, fn), Dependency, fn)

\* StateManager.addValidator
addValidator(S, key) == subscribe(S, key, Validator)

\* batchUpdate, second loop: this.state[key] = value; addToHistory(...)
RECURSIVE ApplyUpdates(_, _, _, _)
ApplyUpdates(S, updates, oldStates, i) ==
    IF i > Len(updates) THEN S
    ELSE ApplyUpdates(
             [S EXCEPT !.state = Assign(@, updates[i].key, updates[i].value),
                       !.history = addToHistory(@, updates[i].key, oldStates[i],
                                                updates[i].value)],
             updates, oldStates, i + 1)

\* batchUpdate, third loop: notifySubscribers(...); autoPersist(...), which an
\* escaping error leaves
RECURSIVE NotifyUpdates(_, _, _, _)
NotifyUpdates(S, updates, oldStates, i) ==
    IF i > Len(updates) \/ S.error # Null THEN S
    ELSE NotifyUpdates(
             autoPersist(
                 notifySubscribers(S, updates[i].key, updates[i].value,
                                   oldStates[i]),
                 updates[i].key, updates[i].value),
             updates, oldStates, i + 1)

\* a batchUpdate that writes and notifies one key after the other
RECURSIVE UpdateEach(_, _, _)
UpdateEach(S, updates, i) ==
    IF i > Len(updates) \/ S.error # Null THEN S
    ELSE LET key == updates[i].key
             value == updates[i].value
             oldValue == ValueOf(S.state, key)
             S1 == [S EXCEPT !.state = Assign(@, key, value),
                             !.history = addToHistory(@, key, oldValue, value)]
         IN  UpdateEach(autoPersist(notifySubscribers(S1, key, value, oldValue),
                                    key, value),
                        updates, i + 1)
batchUpdateOneByOne(S, updates) == UpdateEach(S, updates, 1)

\* StateManager.batchUpdate; updates are the entries of the object in order
batchUpdate(S, updates) ==
    LET oldStates == [i \in 1..Len(updates) |-> ValueOf(S.state, updates[i].key)]
    IN  NotifyUpdates(ApplyUpdates(S, updates, oldStates, 1), updates,
                      oldStates, 1)

\* index-wise forEach over entries, notifying the removal of those in `gone`
RECURSIVE NotifyRemoved(_, _, _, _)
NotifyRemoved(S, entries, gone, i) ==
    IF i > Len(entries) THEN S
    ELSE NotifyRemoved(
             IF entries[i].key \in gone
             THEN notifySubscribers(S, entries[i].key, Undefined,
                                    entries[i].value)
             ELSE S,
             entries, gone, i + 1)

\* StateManager.reset(keysToKeep)
reset(S, keysToKeep) ==
    LET currentState == S.state
        kept == {keysToKeep[i] : i \in 1..Len(keysToKeep)}
        present(key) == InState(currentState, key)
        keep == SelectSeq(keysToKeep, present)
        S1 == [S EXCEPT !.state =
                  [i \in 1..Len(keep) |->
                      [key |-> keep[i], value |-> ValueOf(currentState, keep[i])]]]
        S2 == NotifyRemoved(S1, currentState, StateKeys \ kept, 1)
    IN  clearPersistence(S2, keysToKeep)

RECURSIVE RemovePersistedAll(_, _, _)
RemovePersistedAll(S, keys, i) ==
    IF i > Len(keys) THEN S
    ELSE RemovePersistedAll(removePersisted(S, keys[i]), keys, i + 1)

\* StateManager.clearSensitiveData
clearSensitiveData(S) ==
    LET present(key) == InState(S.state, key)
        sensitive == SelectSeq(S.sensitiveKeys, present)
        oldValues == [i \in 1..Len(sensitive) |->
                         [key |-> sensitive[i], value |-> ValueOf(S.state, sensitive[i])]]
        other(e) == \A i \in 1..Len(sensitive) : sensitive[i] # e.key
        S1 == [S EXCEPT !.state = SelectSeq(@, other)]
        S2 == NotifyRemoved(S1, oldValues, StateKeys, 1)
    IN  RemovePersistedAll(S2, S.sensitiveKeys, 1)

\* StateManager.addSensitiveKey: Set.add
addSensitiveKey(S, key) ==
    IF \E i \in 1..Len(S.sensitiveKeys) : S.sensitiveKeys[i] = key THEN S
    ELSE [S EXCEPT !.sensitiveKeys = Append(@, key)]

\* StateManager.setupAutoPersistence
setupAutoPersistence(S) == [S EXCEPT !.persistedKeys = AutoPersistedKeys]

\* the body of the forEach in loadPersistedState, for one key: a value that
\* cannot be parsed is caught and skipped
LoadKey(S, key) ==
    IF S.storage[key] = NoItem \/ ~JSONparse(S.storage[key]).ok THEN S
    ELSE [S EXCEPT !.state = Assign(@, key, JSONparse(S.storage[key]).value)]

RECURSIVE LoadKeys(_, _)
LoadKeys(S, keys) ==
    IF keys = {} THEN S
    ELSE LET key == CHOOSE k \in keys : TRUE
         IN  LoadKeys(LoadKey(S, key), keys \ {key})

\* StateManager.loadPersistedState: this.persistedKeys.forEach throws a
\* TypeError while persistedKeys is undefined
loadPersistedState(S) ==
    IF S.persistedKeys = NotSet THEN [S EXCEPT !.error = "TypeError"]
    ELSE LoadKeys(S, S.persistedKeys)

\* StateManager.init
init(S) ==
    LET S1 == loadPersistedState(S)
    IN  IF S1.error # Null THEN S1 ELSE setupAutoPersistence(S1)

(***************************************************************************)
(* StateManager: the operations                                            *)
(***************************************************************************)
\* mutating operations explored
MaxOps == 2
\* subscriptions held at a time
MaxSubs == 2

\* the values given to batchUpdate
BatchValues == {Num(1), Obj(2, 1)}
BatchEntries == {[key |-> k, value |-> v] : k \in StateKeys, v \in BatchValues}
\* the objects given to batchUpdate, as their entries in order
Batches ==
    {<<e>> : e \in BatchEntries}
        \cup {<<p[1], p[2]>> : p \in {q \in BatchEntries \X BatchEntries :
                                            q[1].key # q[2].key}}
\* the arrays given to reset
\* the keys that are subscribed to
SubscribedKeys == {"user", Wildcard}
KeepLists == {<<>>, <<"theme">>}

routerVars ==
    <<routes, middlewares, currentRoute, currentParams, notFoundHandler,
      errorHandler, listening, history, historyIndex, location, bhist, bidx,
      bodyClass, navs, regLog, found, routeObj, matched, arrivals, lastOk>>

\* the operation op(args) has run and left S
Operated(op, args, S) ==
    /\ state' = S.state
    /\ subscribers' = S.subscribers
    /\ stateHistory' = S.history
    /\ persistedKeys' = S.persistedKeys
    /\ sensitiveKeys' = S.sensitiveKeys
    /\ storage' = S.storage
    /\ last' = [op |-> op, args |-> args, before |-> Store,
                calls |-> S.calls, error |-> S.error]
    /\ UNCHANGED <<routerVars, viewVars, appVars, authVars>>

Subscriptions ==
    Len(subscribers["user"]) + Len(subscribers["theme"]) + Len(subscribers[Wildcard])

\* new StateManager(), on the same localStorage
NewStateManager ==
    /\ last # NoOperation
    /\ UNCHANGED ops
    /\ state' = <<>>
    /\ subscribers' = [k \in SubscriberKeys |-> <<>>]
    /\ stateHistory' = <<>>
    /\ persistedKeys' = NotSet
    /\ sensitiveKeys' = DefaultSensitiveKeys
    /\ last' = NoOperation
    /\ UNCHANGED storage
    /\ UNCHANGED <<routerVars, viewVars, appVars, authVars>>

InitStateManager ==
    /\ ops < MaxOps
    /\ ops' = ops + 1
    /\ Operated("init", <<>>, init(Store))

SetupAutoPersistence ==
    /\ persistedKeys = NotSet
    /\ UNCHANGED ops
    /\ Operated("setupAutoPersistence", <<>>, setupAutoPersistence(Store))

AddSensitiveKey(key) ==
    /\ \A i \in 1..Len(sensitiveKeys) : sensitiveKeys[i] # key
    /\ UNCHANGED ops
    /\ Operated("addSensitiveKey", <<key>>, addSensitiveKey(Store, key))

Subscribe(key, callback) ==
    /\ Subscriptions < MaxSubs
    /\ UNCHANGED ops
    /\ Operated("subscribe", <<key, callback>>, subscribe(Store, key, callback))

\* the derived key has no compute function yet
AddComputed(fn) ==
    /\ Subscriptions < MaxSubs
    /\ \A i \in 1..Len(subscribers[Dependency]) :
          subscribers[Dependency][i] \notin ComputeFns
    /\ UNCHANGED ops
    /\ Operated("addComputed", <<DerivedKey, fn>>, addComputed(Store, fn))

AddValidator(key) ==
    /\ Subscriptions < MaxSubs
    /\ UNCHANGED ops
    /\ Operated("addValidator", <<key>>, addValidator(Store, key))

\* a call of a function that subscribe(key, callback) has returned: of the
\* function the step before has called (again), or of one not called so far,
\* whose subscription is in the list
Unsubscribe(key, callback, again) ==
    /\ IF again
       THEN last.op = "unsubscribe" /\ last.args[1] = key /\ last.args[2] = callback
       ELSE \E i \in 1..Len(subscribers[key]) : subscribers[key][i] = callback
    /\ UNCHANGED ops
    /\ Operated("unsubscribe", <<key, callback, again>>,
                [Store EXCEPT !.subscribers = unsubscribe(@, key, callback)])

SetState(key, value) ==
    /\ ops < MaxOps
    /\ ops' = ops + 1
    /\ Operated("setState", <<key, value>>, setState(Store, key, value))

RemoveState(key) ==
    /\ ops < MaxOps
    /\ ops' = ops + 1
    /\ Operated("removeState", <<key>>, removeState(Store, key))

BatchUpdate(updates) ==
    /\ ops < MaxOps
    /\ ops' = ops + 1
    /\ Operated("batchUpdate", updates, batchUpdate(Store, updates))

Reset(keysToKeep) ==
    /\ ops < MaxOps
    /\ ops' = ops + 1
    /\ Operated("reset", keysToKeep, reset(Store, keysToKeep))

ClearSensitiveData ==
    /\ ops < MaxOps
    /\ ops' = ops + 1
    /\ Operated("clearSensitiveData", <<>>, clearSensitiveData(Store))

NextState ==
    \/ NewStateManager
    \/ InitStateManager
    \/ SetupAutoPersistence
    \/ \E key \in StateKeys : AddSensitiveKey(key)
    \/ \E key \in SubscribedKeys, callback \in Callbacks : Subscribe(key, callback)
    \/ \E key \in SubscribedKeys \ {Wildcard} : AddValidator(key)
    \/ \E key \in SubscribedKeys, callback \in Callbacks \cup {Validator},
            again \in BOOLEAN :
           Unsubscribe(key, callback, again)
    \/ \E key \in StateKeys, value \in StateValues : SetState(key, value)
    \/ \E key \in StateKeys : RemoveState(key)
    \/ \E updates \in Batches : BatchUpdate(updates)
    \/ \E keysToKeep \in KeepLists : Reset(keysToKeep)
    \/ ClearSensitiveData

SpecState == Init /\ [][NextState]_vars

-----------------------------------------------------------------------------
\* The state store with a history log that is about to fill up

HistoryStarts == {MaxHistorySize - 1, MaxHistorySize}

\* the log after n calls that have all returned: setState('user', j) at each
\* odd j and removeState('user') at each even j, the newest entry first
UsedHistory(n) ==
    [i \in 1..n |->
        LET j == n - i + 1
        IN  IF j % 2 = 1
            THEN [key |-> "user", oldValue |-> Undefined, newValue |-> Num(j)]
            ELSE [key |-> "user", oldValue |-> Num(j - 1), newValue |-> Undefined]]
\* the state these calls leave
UsedState(n) == IF n % 2 = 1 THEN Assign(<<>>, "user", Num(n)) ELSE <<>>

\* setupAutoPersistence() has been called before them
InitHistory ==
    /\ NewRouter
    /\ NewView
    /\ \E n \in HistoryStarts : state = UsedState(n) /\ stateHistory = UsedHistory(n)
    /\ subscribers = [k \in SubscriberKeys |-> <<>>]
    /\ persistedKeys = AutoPersistedKeys
    /\ sensitiveKeys = DefaultSensitiveKeys
    /\ storage = [k \in StateKeys |-> NoItem]
    /\ last = NoOperation
    /\ ops = 0

NextHistory ==
    \/ \E key \in StateKeys, value \in StateValues : SetState(key, value)
    \/ \E key \in StateKeys : RemoveState(key)
    \/ \E updates \in Batches : BatchUpdate(updates)
    \/ \E keysToKeep \in KeepLists : Reset(keysToKeep)
    \/ ClearSensitiveData

SpecHistory == InitHistory /\ [][NextHistory]_vars

-----------------------------------------------------------------------------
\* The state store with a subscriber that writes another key

\* new StateManager(); subscribe(ReentrantFrom, Setter)
InitReentrant ==
    /\ NewRouter
    /\ NewView
    /\ state = <<>>
    /\ subscribers = [k \in SubscriberKeys |->
                         IF k = ReentrantFrom THEN <<Setter>> ELSE <<>>]
    /\ stateHistory = <<>>
    /\ persistedKeys = NotSet
    /\ sensitiveKeys = DefaultSensitiveKeys
    /\ storage = [k \in StateKeys |-> NoItem]
    /\ last = NoOperation
    /\ ops = 0

NextReentrant ==
    \/ SetupAutoPersistence
    \/ \E key \in SubscriberKeys, callback \in Callbacks : Subscribe(key, callback)
    \/ \E key \in StateKeys, value \in StateValues : SetState(key, value)
    \/ \E key \in StateKeys : RemoveState(key)
    \/ \E updates \in Batches : BatchUpdate(updates)

SpecReentrant == InitReentrant /\ [][NextReentrant]_vars

-----------------------------------------------------------------------------
\* The state store with the subscribers of POSApp

\* new StateManager(), before or after setupAutoPersistence, and
\* setupStateSubscriptions()
InitSubscribers ==
    /\ NewRouter
    /\ NewView
    /\ state = <<>>
    /\ subscribers = [k \in SubscriberKeys |->
                         IF k = "user" THEN <<AuthSubscriber>>
                         ELSE IF k = NetworkKey THEN <<NetworkSubscriber>>
                         ELSE <<>>]
    /\ stateHistory = <<>>
    /\ persistedKeys \in {NotSet, AutoPersistedKeys}
    /\ sensitiveKeys = DefaultSensitiveKeys
    /\ storage = [k \in StateKeys |-> NoItem]
    /\ last = NoOperation
    /\ ops = 0

NextSubscribers ==
    \/ \E key \in StateKeys : AddSensitiveKey(key)
    \/ \E key \in StateKeys, value \in StateValues \cup LoggedOutValues :
           SetState(key, value)
    \/ \E key \in StateKeys : RemoveState(key)
    \/ \E updates \in Batches : BatchUpdate(updates)
    \/ \E keysToKeep \in KeepLists : Reset(keysToKeep)
    \/ ClearSensitiveData

SpecSubscribers == InitSubscribers /\ [][NextSubscribers]_vars

-----------------------------------------------------------------------------
\* The state store with derived values

NextComputed ==
    \/ SetupAutoPersistence
    \/ \E fn \in ComputeFns : AddComputed(fn)
    \/ \E value \in StateValues : SetState(Dependency, value)
    \/ RemoveState(Dependency)

SpecComputed == Init /\ [][NextComputed]_vars

(***************************************************************************)
(* BaseView: the lifecycle of a view and the resources it tracks           *)
(***************************************************************************)
\* the init() and destroy() calls and the tracked registrations of a run
MaxInitCalls == 2
MaxDestroyCalls == 2
MaxTracked == 2

\* what a call of onDestroy() does
OnDestroyOutcomes == {"returns", "throws"}

\* the view did op; log is viewLog with the counters of the call moved
ViewDid(op, log) == viewLog' = [log EXCEPT !.op = op]

\* the ids in a tracking list
Tracked(list) == {list[i] : i \in 1..Len(list)}

\* this.timeouts.indexOf(timeoutId) and splice(index, 1)
Untrack(list, id) == SelectSeq(list, LAMBDA x : x # id)

\* view.init() up to `await this.onInit()`; an initialized view only warns
ViewInit ==
    /\ viewLog.initCalls < MaxInitCalls
    /\ IF view.isInitialized
       THEN /\ ViewDid("init", [viewLog EXCEPT !.initCalls = @ + 1])
            /\ UNCHANGED <<view, page, awaiting>>
       ELSE /\ page' = [page EXCEPT !.title = TRUE, !.viewClass = TRUE]
            /\ awaiting' = awaiting + 1
            /\ ViewDid("init", [viewLog EXCEPT !.initCalls = @ + 1,
                                               !.onInitRuns = @ + 1])
            /\ UNCHANGED view
    /\ UNCHANGED <<routerVars, storeVars, appVars, authVars>>

\* the promise of onInit() is fulfilled: init() resumes after the await
OnInitReturns ==
    /\ awaiting > 0
    /\ awaiting' = awaiting - 1
    /\ view' = [view EXCEPT !.isInitialized = TRUE]
    /\ ViewDid("onInit returns", viewLog)
    /\ UNCHANGED <<page, routerVars, storeVars, appVars, authVars>>

\* the errors that onInit() can throw
InitErrors == {"e1", "e2"}

\* a catch block of init() that only logs: init() is fulfilled
initCatchLogs(error) == Null

\* the catch block of init(): `throw error`, what init() is rejected with
initCatch(error) == error

\* onInit() throws or its promise is rejected: init() rethrows the error
OnInitThrows(error) ==
    /\ awaiting > 0
    /\ awaiting' = awaiting - 1
    /\ ViewDid("onInit throws", [viewLog EXCEPT !.rejected = TRUE,
                                                !.thrown = error,
                                                !.initError = initCatch(error)])
    /\ UNCHANGED <<view, page, routerVars, storeVars, appVars, authVars>>

\* a subclass render(): the container gets its content
Render ==
    /\ view.container = Blank
    /\ view' = [view EXCEPT !.container = Rendered]
    /\ ViewDid("render", viewLog)
    /\ UNCHANGED <<page, awaiting, routerVars, storeVars, appVars, authVars>>

\* view.addEventListener(element, event, handler)
AddEventListener ==
    /\ viewLog.made < MaxTracked
    /\ LET id == viewLog.made + 1 IN
        /\ view' = [view EXCEPT !.eventListeners = Append(@, id)]
        /\ page' = [page EXCEPT !.listeners = @ \cup {id}]
        /\ ViewDid("addEventListener", [viewLog EXCEPT !.made = id])
    /\ UNCHANGED <<awaiting, routerVars, storeVars, appVars, authVars>>

\* view.setTimeout(callback, delay)
SetTimeout ==
    /\ viewLog.made < MaxTracked
    /\ LET id == viewLog.made + 1 IN
        /\ view' = [view EXCEPT !.timeouts = Append(@, id)]
        /\ page' = [page EXCEPT !.timeouts = @ \cup {id}]
        /\ ViewDid("setTimeout", [viewLog EXCEPT !.made = id])
    /\ UNCHANGED <<awaiting, routerVars, storeVars, appVars, authVars>>

\* view.setInterval(callback, interval)
SetInterval ==
    /\ viewLog.made < MaxTracked
    /\ LET id == viewLog.made + 1 IN
        /\ view' = [view EXCEPT !.intervals = Append(@, id)]
        /\ page' = [page EXCEPT !.intervals = @ \cup {id}]
        /\ ViewDid("setInterval", [viewLog EXCEPT !.made = id])
    /\ UNCHANGED <<awaiting, routerVars, storeVars, appVars, authVars>>

\* callbacks with these ids run: late when one outlived a destroy() call
Fired(ids) == [viewLog EXCEPT !.late = @ \/ (ids \cap viewLog.stale # {})]

\* an event reaches the elements: every attached handler is called
Dispatch ==
    /\ page.listeners # {}
    /\ ViewDid("event", Fired(page.listeners))
    /\ UNCHANGED <<view, page, awaiting, routerVars, storeVars, appVars, authVars>>

\* a timeout is due: the wrapper untracks it and calls the callback
TimeoutFires(id) ==
    /\ id \in page.timeouts
    /\ page' = [page EXCEPT !.timeouts = @ \ {id}]
    /\ view' = [view EXCEPT !.timeouts = Untrack(@, id)]
    /\ ViewDid("timeout", Fired({id}))
    /\ UNCHANGED <<awaiting, routerVars, storeVars, appVars, authVars>>

\* an interval is due: its callback is called
IntervalFires(id) ==
    /\ id \in page.intervals
    /\ ViewDid("interval", Fired({id}))
    /\ UNCHANGED <<view, page, awaiting, routerVars, storeVars, appVars, authVars>>

\* what a teardown step of destroy() after onDestroy does: all steps
\* return, or the named one throws
TeardownFailures == {"none", "removeEventListener", "removeViewClass", "innerHTML"}

\* removeEventListeners, clearTimeouts, clearIntervals: a removal that throws
\* is caught inside the loop and leaves the handler attached
Released(p, v, failing) ==
    [p EXCEPT !.listeners = IF failing = "removeEventListener"
                            THEN @ ELSE @ \ Tracked(v.eventListeners),
              !.timeouts = @ \ Tracked(v.timeouts),
              !.intervals = @ \ Tracked(v.intervals)]

\* the three tracking lists are reset
Untracked(v) ==
    [v EXCEPT !.eventListeners = <<>>, !.timeouts = <<>>, !.intervals = <<>>]

\* the view after the try block of destroy() ran to its end
Destroyed(v) ==
    [Untracked(v) EXCEPT !.container = Blank, !.isInitialized = FALSE,
                         !.isDestroyed = TRUE]

\* the callbacks that the page can still call
Live(p) == p.listeners \cup p.timeouts \cup p.intervals

\* the try block of destroy(): what it leaves, and whether a statement threw
TryDestroy(v, p, outcome, failing) ==
    IF outcome = "throws"
    THEN [view |-> v, page |-> p, cleared |-> FALSE, threw |-> TRUE]
    ELSE LET released == Released(p, v, failing)
             unclassed == [released EXCEPT !.viewClass = FALSE]
         IN  IF failing = "removeViewClass"
             THEN [view |-> Untracked(v), page |-> released,
                   cleared |-> FALSE, threw |-> TRUE]
             ELSE IF failing = "innerHTML"
             THEN [view |-> Untracked(v), page |-> unclassed,
                   cleared |-> FALSE, threw |-> TRUE]
             ELSE [view |-> Destroyed(v), page |-> unclassed,
                   cleared |-> TRUE, threw |-> FALSE]

\* destroy() with a catch block that throws the error again
destroyRethrows(v, p, outcome, failing) ==
    IF v.isDestroyed
    THEN [view |-> v, page |-> p, ran |-> FALSE, cleared |-> FALSE,
          caught |-> FALSE, error |-> FALSE]
    ELSE LET try == TryDestroy(v, p, outcome, failing)
         IN  [view |-> try.view, page |-> try.page, ran |-> TRUE,
              cleared |-> try.cleared, caught |-> try.threw,
              error |-> try.threw]

\* view.destroy(): a destroyed view returns at once; the catch block only
\* logs, so the call ends normally
destroy(v, p, outcome, failing) ==
    IF v.isDestroyed
    THEN [view |-> v, page |-> p, ran |-> FALSE, cleared |-> FALSE,
          caught |-> FALSE, error |-> FALSE]
    ELSE LET try == TryDestroy(v, p, outcome, failing)
         IN  [view |-> try.view, page |-> try.page, ran |-> TRUE,
              cleared |-> try.cleared, caught |-> try.threw,
              error |-> FALSE]

\* view.destroy(), with what its onDestroy() and its teardown steps do
Destroy(outcome, failing) ==
    /\ viewLog.destroyCalls < MaxDestroyCalls
    /\ UNCHANGED awaiting
    /\ LET done == destroy(view, page, outcome, failing) IN
        /\ view' = done.view
        /\ page' = done.page
        /\ ViewDid("destroy",
               [viewLog EXCEPT !.destroyCalls = @ + 1,
                               !.onDestroyRuns = IF done.ran THEN @ + 1 ELSE @,
                               !.cleared = IF done.cleared THEN @ + 1 ELSE @,
                               !.stale = IF done.ran
                                         THEN @ \cup Live(done.page) ELSE @,
                               !.caught = done.caught,
                               !.error = done.error])
    /\ UNCHANGED <<routerVars, storeVars, appVars, authVars>>

NextView ==
    \/ ViewInit
    \/ OnInitReturns
    \/ \E error \in InitErrors : OnInitThrows(error)
    \/ Render
    \/ AddEventListener
    \/ SetTimeout
    \/ SetInterval
    \/ Dispatch
    \/ \E id \in 1..MaxTracked : TimeoutFires(id)
    \/ \E id \in 1..MaxTracked : IntervalFires(id)
    \/ \E outcome \in OnDestroyOutcomes, failing \in TeardownFailures :
          Destroy(outcome, failing)

SpecView == Init /\ [][NextView]_vars

(***************************************************************************)
(* POSApp: loading views                                                   *)
(***************************************************************************)
\* the loadView calls of a run
MaxLoads == 3

\* the view names that are loaded: two of the view map, one that is not in it
FallbackView == "dashboard"
ViewNames == {FallbackView, "pos", "missing"}
KnownViews == {FallbackView, "pos"}

\* the loadView call i stands at position pc
AtLoad(i, pc) == i \in 1..Len(loads) /\ loads[i].pc = pc

\* app.loadView(viewName) up to `await this.importView(viewName)`
LoadView(viewName) ==
    /\ Len(loads) < MaxLoads
    /\ loads' = Append(loads, [name |-> viewName, pc |-> "import", view |-> 0])
    /\ UNCHANGED <<currentView, views>>
    /\ UNCHANGED <<routerVars, storeVars, viewVars, authVars>>

\* handleViewError(viewName): router.navigate('/dashboard') for another view
\* than the dashboard; the navigation loads the dashboard or is dropped by
\* the router
handleViewError(L, viewName, follows) ==
    IF viewName # FallbackView /\ follows /\ Len(L) < MaxLoads
    THEN Append(L, [name |-> FallbackView, pc |-> "import", view |-> 0])
    ELSE L

\* this.currentView.destroy() if there is a current view
DestroyCurrent(V, current, outcome, failing) ==
    IF current = 0
    THEN V
    ELSE [V EXCEPT ![current] =
             [destroy(@, FreshPage, outcome, failing).view
                 EXCEPT !.destroyCalls = @ + 1]]

\* the import of call i is fulfilled: the current view is destroyed, the new
\* view is constructed and made current, and its init() runs up to the await
ImportResolves(i, outcome, failing) ==
    /\ AtLoad(i, "import")
    /\ loads[i].name \in KnownViews
    /\ LET destroyed == DestroyCurrent(views, currentView, outcome, failing)
           created == FreshView @@ [name |-> loads[i].name, destroyCalls |-> 0]
       IN  /\ views' = Append(destroyed, created)
           /\ currentView' = Len(views) + 1
           /\ loads' = [loads EXCEPT ![i].pc = "init", ![i].view = Len(views) + 1]
    /\ UNCHANGED <<routerVars, storeVars, viewVars, authVars>>

\* the import of call i fails, or the name is not in the view map: the catch
\* block of loadView runs
ImportRejects(i, follows) ==
    /\ AtLoad(i, "import")
    /\ loads' = handleViewError([loads EXCEPT ![i].pc = "import failed"],
                                loads[i].name, follows)
    /\ UNCHANGED <<currentView, views>>
    /\ UNCHANGED <<routerVars, storeVars, viewVars, authVars>>

\* init() of the view of call i is fulfilled
InitResolves(i) ==
    /\ AtLoad(i, "init")
    /\ views' = [views EXCEPT ![loads[i].view].isInitialized = TRUE]
    /\ loads' = [loads EXCEPT ![i].pc = "loaded"]
    /\ UNCHANGED currentView
    /\ UNCHANGED <<routerVars, storeVars, viewVars, authVars>>

\* init() of the view of call i is rejected: the catch block of loadView runs
InitRejects(i, follows) ==
    /\ AtLoad(i, "init")
    /\ loads' = handleViewError([loads EXCEPT ![i].pc = "init failed"],
                                loads[i].name, follows)
    /\ UNCHANGED <<currentView, views>>
    /\ UNCHANGED <<routerVars, storeVars, viewVars, authVars>>

NextApp ==
    \/ \E viewName \in ViewNames : LoadView(viewName)
    \/ \E i \in 1..MaxLoads, outcome \in OnDestroyOutcomes,
          failing \in TeardownFailures : ImportResolves(i, outcome, failing)
    \/ \E i \in 1..MaxLoads, follows \in BOOLEAN : ImportRejects(i, follows)
    \/ \E i \in 1..MaxLoads : InitResolves(i)
    \/ \E i \in 1..MaxLoads, follows \in BOOLEAN : InitRejects(i, follows)

SpecApp == Init /\ [][NextApp]_vars

(***************************************************************************)
(* AuthManager                                                             *)
(***************************************************************************)
\* the calls of login, logout and refreshToken explored
MaxAuthCalls == 4
\* the tokens that the server issues and the users it knows
Tokens == {"t1", "t2"}
Users == {"admin", "cajero"}

\* JSON.stringify(user)
StringifyUser(user) ==
    IF user = "admin" THEN "{\"username\":\"admin\"}"
    ELSE "{\"username\":\"cajero\"}"

\* the AuthManager and the storage as one value
Session == [auth |-> auth, credentials |-> credentials, requests |-> requests,
            loggedOut |-> authLog.loggedOut]

\* the call op has run up to its next await, or to its end, and left M
AuthDid(op, M, started) ==
    /\ auth' = M.auth
    /\ credentials' = M.credentials
    /\ requests' = M.requests
    /\ authLog' = [op |-> op, calls |-> authLog.calls + started,
                   loggedOut |-> M.loggedOut]
    /\ UNCHANGED <<routerVars, storeVars, viewVars, appVars>>

\* AuthManager.stopTokenRefreshTimer
stopTokenRefreshTimer(M) == [M EXCEPT !.auth.refreshTimer = FALSE]

\* AuthManager.startTokenRefreshTimer
startTokenRefreshTimer(M) ==
    [stopTokenRefreshTimer(M) EXCEPT !.auth.refreshTimer = TRUE]

\* AuthManager.setAuthentication(token, user)
setAuthentication(M, token, user) ==
    startTokenRefreshTimer(
        [M EXCEPT !.auth.token = token, !.auth.user = user,
                  !.credentials.pos_token = token,
                  !.credentials.pos_user = StringifyUser(user)])

\* AuthManager.clearStoredAuth
clearStoredAuth(M) ==
    [M EXCEPT !.credentials = [pos_token |-> Null, pos_user |-> Null,
                               pos_refresh_token |-> Null]]

\* AuthManager.clearAuthentication
clearAuthentication(M) ==
    stopTokenRefreshTimer(
        clearStoredAuth([M EXCEPT !.auth.token = Null, !.auth.user = Null]))

\* logout() from the fetch of the logout request on, whether the request
\* succeeded or failed: clearAuthentication(), and logout() resolves
logoutResumes(M) == [clearAuthentication(M) EXCEPT !.loggedOut = TRUE]

\* logout() up to its fetch, or to its end for a manager without a token
logout(M) ==
    LET stopped == stopTokenRefreshTimer(M) IN
    IF stopped.auth.token # Null
    THEN [stopped EXCEPT !.requests.logout = @ + 1]
    ELSE logoutResumes(stopped)

\* auth.login(username, password) up to its fetch
Login ==
    /\ authLog.calls < MaxAuthCalls
    /\ AuthDid("login", [Session EXCEPT !.requests.login = @ + 1,
                                        !.loggedOut = FALSE], 1)

\* the answer to a login request: setAuthentication for a valid one; login
\* throws for any other
LoginResponse(ok, token, user) ==
    /\ requests.login > 0
    /\ LET M == [Session EXCEPT !.requests.login = @ - 1] IN
       IF ok
       THEN AuthDid("loggedIn",
                [setAuthentication(M, token, user) EXCEPT !.loggedOut = FALSE], 0)
       ELSE AuthDid("loginFailed", M, 0)

\* auth.logout() up to its fetch, or to its end
Logout ==
    /\ authLog.calls < MaxAuthCalls
    /\ AuthDid("logout", logout(Session), 1)

\* the logout request succeeds or fails: logout() goes on and resolves
LogoutResponse ==
    /\ requests.logout > 0
    /\ AuthDid("loggedOut",
               logoutResumes([Session EXCEPT !.requests.logout = @ - 1]), 0)

\* auth.refreshToken(), called by the refresh timer or by the application,
\* up to its fetch; without a token it returns false
RefreshToken(byTimer) ==
    /\ authLog.calls < MaxAuthCalls
    /\ byTimer => auth.refreshTimer
    /\ AuthDid("refreshToken",
               IF auth.token = Null THEN Session
               ELSE [Session EXCEPT !.requests.refresh = @ + 1], 1)

\* the answers to a refresh request
RefreshOutcomes == {"token", "noToken", "notOk"}

\* refreshToken() from its fetch on: a new token is kept and stored; an
\* answer without a token returns false; a response that is not ok leads
\* to logout()
refreshResumes(M, outcome, token) ==
    IF outcome = "token"
    THEN [M EXCEPT !.auth.token = token, !.credentials.pos_token = token]
    ELSE IF outcome = "noToken" THEN M
    ELSE logout(M)

\* the answer to a refresh request arrives
RefreshResponse(outcome, token) ==
    /\ requests.refresh > 0
    /\ AuthDid("refreshed",
               refreshResumes([Session EXCEPT !.requests.refresh = @ - 1],
                              outcome, token), 0)

NextAuth ==
    \/ Login
    \/ \E ok \in BOOLEAN, token \in Tokens, user \in Users :
           LoginResponse(ok, token, user)
    \/ Logout
    \/ LogoutResponse
    \/ \E byTimer \in BOOLEAN : RefreshToken(byTimer)
    \/ \E outcome \in RefreshOutcomes, token \in Tokens :
           RefreshResponse(outcome, token)

SpecAuth == Init /\ [][NextAuth]_vars

(***************************************************************************)
(* AuthView: a BaseView with its own init() and destroy()                  *)
(***************************************************************************)
\* the functions that handleGlobalKeyboard.bind(this) may make
MaxBinds == 3

\* fn.bind(this): a new function at every call
Bind(log) == log.binds + 1

\* document.addEventListener('keydown', listener)
addKeydownListener(p, listener) == [p EXCEPT !.keydown = @ \cup {listener}]

\* document.removeEventListener('keydown', listener): removes the listener
\* that is this very function, if it is attached
removeKeydownListener(p, listener) == [p EXCEPT !.keydown = @ \ {listener}]

\* authView.init(): an authenticated user is sent to the dashboard; otherwise
\* render() and setupEventListeners(), whose last statement attaches
\* this.handleGlobalKeyboard.bind(this) to the document
AuthViewInit(authenticated) ==
    /\ viewLog.binds < MaxBinds
    /\ UNCHANGED awaiting
    /\ IF authenticated
       THEN /\ ViewDid("authInit", viewLog)
            /\ UNCHANGED <<view, page>>
       ELSE /\ view' = [view EXCEPT !.container = Rendered]
            /\ page' = addKeydownListener(page, Bind(viewLog))
            /\ ViewDid("authInit", [viewLog EXCEPT !.binds = Bind(viewLog)])
    /\ UNCHANGED <<routerVars, storeVars, appVars, authVars>>

\* a key is pressed: every function attached to the document is called and
\* runs handleGlobalKeyboard of the view
KeyDown ==
    /\ page.keydown # {}
    /\ ViewDid("keydown", [viewLog EXCEPT !.afterDestroy = view.isDestroyed])
    /\ UNCHANGED <<view, page, awaiting, routerVars, storeVars, appVars, authVars>>

\* authView.destroy(): removeEventListener with
\* this.handleGlobalKeyboard.bind(this), then super.destroy()
AuthViewDestroy(outcome, failing) ==
    /\ viewLog.binds < MaxBinds
    /\ viewLog.destroyCalls < MaxDestroyCalls
    /\ UNCHANGED awaiting
    /\ LET removed == removeKeydownListener(page, Bind(viewLog))
           done == destroy(view, removed, outcome, failing)
       IN
        /\ view' = done.view
        /\ page' = done.page
        /\ ViewDid("authDestroy",
               [viewLog EXCEPT !.binds = Bind(viewLog),
                               !.destroyCalls = @ + 1,
                               !.onDestroyRuns = IF done.ran THEN @ + 1 ELSE @,
                               !.cleared = IF done.cleared THEN @ + 1 ELSE @,
                               !.caught = done.caught,
                               !.error = done.error])
    /\ UNCHANGED <<routerVars, storeVars, appVars, authVars>>

\* AuthView defines no onDestroy: the one of BaseView returns
NextAuthView ==
    \/ \E authenticated \in BOOLEAN : AuthViewInit(authenticated)
    \/ KeyDown
    \/ \E failing \in TeardownFailures : AuthViewDestroy("returns", failing)
    \/ AddEventListener
    \/ SetTimeout
    \/ SetInterval
    \/ Dispatch
    \/ \E id \in 1..MaxTracked : TimeoutFires(id)
    \/ \E id \in 1..MaxTracked : IntervalFires(id)

SpecAuthView == Init /\ [][NextAuthView]_vars

(***************************************************************************)
(* Properties of the navigation resolution                                 *)
(***************************************************************************)
Calls == 1..Len(navs)
Count(nav, kind) == Cardinality({k \in 1..Len(nav.steps) : nav.steps[k][1] = kind})
Has(nav, kind) == Count(nav, kind) > 0
IsPrefix(a, b) == Len(a) <= Len(b) /\ a = SubSeq(b, 1, Len(a))
Matching(path) == {k \in 1..Len(routes) : match(routes[k], path).ok}
programVars ==
    <<routes, middlewares, currentRoute, currentParams, notFoundHandler,
      errorHandler, listening, history, historyIndex, location, bhist, bidx,
      bodyClass, navs>>

\* C1: a call made while an earlier call was suspended in a middleware or in
\* its handler invokes no middleware and no handler before that earlier call
\* has returned.
C1_NoInterleaving ==
    \A j \in Calls :
        (\E i \in navs[j].waitFor : navs[i].pc # "done")
            => ~(Has(navs[j], "g") \/ Has(navs[j], "r") \/ Has(navs[j], "handler"))

\* a call that a middleware stopped by returning false
BlockedByFalse(nav) == nav.outcome = "blocked" /\ ~nav.threw

\* C2: a middleware that returns exactly false ends the call: no later
\* middleware, no handler, no routeChange, currentRoute and currentParams not
\* assigned; every other returned value lets the chain go on.
C2_BlockedState ==
    \A i \in Calls :
        BlockedByFalse(navs[i]) =>
            /\ navs[i].pc = "done"
            /\ ~navs[i].wrote
            /\ ~Has(navs[i], "handler")
            /\ ~Has(navs[i], "routeChange")
            /\ navs[i].steps[Len(navs[i].steps)] =
                  (IF Has(navs[i], "r") THEN navs[i].route.middleware[navs[i].mi]
                                        ELSE middlewares[navs[i].mi])

C2_FalseStops(i) ==
    (GlobalMiddlewareReturn(i, "false") \/ RouteMiddlewareReturn(i, "false"))
        => /\ BlockedByFalse(navs'[i])
           /\ navs'[i].steps = navs[i].steps
           /\ UNCHANGED <<currentRoute, currentParams>>

C2_OtherContinues(i, r) ==
    (GlobalMiddlewareReturn(i, r) \/ RouteMiddlewareReturn(i, r))
        => /\ navs'[i].pc # "done"
           /\ \/ Len(navs'[i].steps) = Len(navs[i].steps) + 1
              \/ navs'[i].pc \in {"afterGlobal", "afterRoute"}

C2_MiddlewareFalse ==
    /\ []C2_BlockedState
    /\ [][\A i \in NavIds : C2_FalseStops(i)]_vars
    /\ [][\A i \in NavIds, r \in MwResults \ {"false", "throw"} :
              C2_OtherContinues(i, r)]_vars

\* C2 witness: a call was stopped by false at its second global middleware
\* and currentRoute is not its path
C2_Witness ==
    \E i \in Calls :
        /\ BlockedByFalse(navs[i])
        /\ navs[i].steps = <<<<"g", 1>>, <<"g", 2>>>>
        /\ currentRoute # navs[i].path

\* C3: when no call is in flight, currentRoute and currentParams are those of
\* the last call whose handler completed; a blocked, unmatched or failing call
\* has not assigned them.
C3_CurrentIsLastSuccess ==
    /\ \A i \in Calls :
           navs[i].outcome \in {"blocked", "unmatched", "error"} => ~navs[i].wrote
    /\ (\A i \in Calls : navs[i].pc = "done")
           => currentRoute = lastOk.path /\ currentParams = lastOk.params

\* C4: a call in which a middleware threw is aborted and, once it has
\* returned, the configured error handler has been invoked for it.
C4_MiddlewareErrorSurfaced ==
    \A i \in Calls :
        (navs[i].threw /\ navs[i].pc = "done" /\ errorHandler # Null)
            => /\ navs[i].outcome = "blocked"
               /\ Has(navs[i], "errorHandler")

\* what a matched call invokes, in order, when nothing stops it
FullOrder(nav) ==
    middlewares \o nav.route.middleware
        \o <<<<"handler", 0>>, <<"handlerDone", 0>>, <<"routeChange", 0>>>>

\* the invoking part of a call whose handler failed
FailedOrder(nav) ==
    middlewares \o nav.route.middleware \o <<<<"handler", 0>>>>

\* C5: a matched call invokes all global middlewares in registration order,
\* then the route's middlewares in list order, then the handler, and emits
\* routeChange once, after the handler has completed, when it succeeds.
C5_StepsInOrder ==
    \A i \in Calls :
        navs[i].outcome # "unmatched" =>
            /\ \/ IsPrefix(navs[i].steps, FullOrder(navs[i]))
               \/ /\ navs[i].outcome = "error"
                  /\ SubSeq(navs[i].steps, 1, Len(navs[i].steps) - 1)
                        = FailedOrder(navs[i])
            /\ Count(navs[i], "routeChange")
                  = (IF navs[i].outcome = "ok" THEN 1 ELSE 0)
            /\ navs[i].outcome = "ok" => navs[i].steps = FullOrder(navs[i])

\* C5 witness: a call that went through two global and two route middlewares,
\* its handler and the event
C5_Witness ==
    \E i \in Calls :
        /\ navs[i].outcome = "ok"
        /\ Len(navs[i].steps) = 7

\* C6: a failing handler reaches the error handler exactly once (or is only
\* logged when there is none), no routeChange is emitted, and no call is ever
\* rejected, also when the error or not-found handler throws.
C6_HandlerErrorContained ==
    \A i \in Calls :
        /\ ~navs[i].rejected
        /\ (navs[i].outcome = "error") =>
              /\ Count(navs[i], "errorHandler")
                    = (IF errorHandler # Null THEN 1 ELSE 0)
              /\ Count(navs[i], "logged")
                    = (IF errorHandler # Null THEN 0 ELSE 1)
              /\ ~Has(navs[i], "routeChange")
              /\ Has(navs[i], "handler")

\* C6 witness: a handler failed, the error handler was invoked and has
\* returned (or thrown), and the call has returned
C6_Witness ==
    \E i \in Calls :
        /\ navs[i].outcome = "error"
        /\ navs[i].pc = "done"
        /\ Has(navs[i], "errorHandler")

\* C7: a call whose path no registered route matches invokes the not-found
\* handler if there is one and otherwise calls navigate('/dashboard',
\* {replace: true}), which leaves the browser at /dashboard; it invokes no
\* middleware, no handler, emits nothing, assigns nothing and is not rejected.
C7_UnmatchedState ==
    \A i \in Calls :
        (Matching(navs[i].path) = {}) =>
            /\ navs[i].outcome = "unmatched"
            /\ navs[i].steps = (IF notFoundHandler # Null
                                THEN <<<<"notFound", 0>>>>
                                ELSE <<<<"fallback", 0>>>>)
            /\ ~navs[i].wrote
            /\ ~navs[i].rejected

C7_FallbackReplaces(i) ==
    (i > Len(navs) /\ i <= Len(navs') /\ Has(navs'[i], "fallback"))
        => /\ location' = Dashboard
           /\ bhist'[bidx'] = Dashboard
           /\ Len(bhist') <= Len(bhist) + 1
           /\ UNCHANGED <<currentRoute, currentParams>>

C7_NotFound ==
    /\ []C7_UnmatchedState
    /\ [][\A i \in NavIds : C7_FallbackReplaces(i)]_vars

\* C7 witness: with no not-found handler, an unmatched call fell back and the
\* fallback's own call for /dashboard matched a route
C7_Witness ==
    \E i \in Calls :
        /\ Has(navs[i], "fallback")
        /\ i < Len(navs)
        /\ navs[i + 1].path = Dashboard
        /\ navs[i + 1].outcome # "unmatched"

\* C8: navigate(path) without force changes nothing when the normalized path
\* is the current path; a navigate('/dashboard') leaves the browser at
\* /dashboard, so that a second one is such a no-op and the first one made the
\* only call for it; with force the resolution runs again.
C8_NoOp(p, r, s) ==
    (Navigate(p, r, s, FALSE) /\ normalizePath(p) = location)
        => UNCHANGED programVars

C8_ThenSame(r, s, f) ==
    Navigate(Dashboard, r, s, f)
        => /\ location' = Dashboard
           /\ (~s /\ ~UNCHANGED programVars /\ Matching(Dashboard) # {})
                 => /\ Len(navs') = Len(navs) + 1
                    /\ navs'[Len(navs')].path = Dashboard

C8_Forced(p, r) ==
    (Navigate(p, r, FALSE, TRUE) /\ normalizePath(p) = location)
        => /\ Len(navs') > Len(navs)
           /\ navs'[Len(navs) + 1].path = location

C8_SameRouteNoOp ==
    /\ [][\A p \in NavPaths, r \in BOOLEAN, s \in BOOLEAN : C8_NoOp(p, r, s)]_vars
    /\ [][\A r \in BOOLEAN, s \in BOOLEAN, f \in BOOLEAN : C8_ThenSame(r, s, f)]_vars
    /\ [][\A p \in NavPaths, r \in BOOLEAN : C8_Forced(p, r)]_vars

\* C8 witness: after navigate('/dashboard') and one more navigate call the
\* browser is at /dashboard with one entry pushed, and the only call made is
\* the one for /dashboard, whose handler was invoked
C8_Witness ==
    /\ location = Dashboard
    /\ bhist = <<Root, Dashboard>>
    /\ arrivals = 2
    /\ Len(navs) = 1
    /\ navs[1].path = Dashboard
    /\ Count(navs[1], "handler") = 1

(***************************************************************************)
(* Properties of the route table                                           *)
(***************************************************************************)
Registered == {regLog[k].path : k \in 1..Len(regLog)}
FirstRegistration(q) == MinOf({k \in 1..Len(regLog) : regLog[k].path = q})
LastRegistration(q) == MaxOf({k \in 1..Len(regLog) : regLog[k].path = q})
\* precedence position of a registered pattern: its rank by first registration
Rank(q) ==
    Cardinality({r \in Registered : FirstRegistration(r) <= FirstRegistration(q)})
\* the registered patterns that accept the path
Accepting(path) == {q \in Registered : match(NewRoute(q, Null, <<>>), path).ok}

C9_TableOrder ==
    /\ Len(routes) = Cardinality(Registered)
    /\ \A q \in Registered :
           /\ routes[Rank(q)].path = q
           /\ routes[Rank(q)].handler = regLog[LastRegistration(q)].handler

C9_Resolves(path) ==
    FindRoute(path) =>
        IF Accepting(path) = {} THEN found'.index = 0
        ELSE LET w == CHOOSE q \in Accepting(path) :
                          \A r \in Accepting(path) :
                              FirstRegistration(q) <= FirstRegistration(r)
             IN  /\ found'.index = Rank(w)
                 /\ found'.route.path = w
                 /\ found'.route.handler = regLog[LastRegistration(w)].handler

\* C9: findRoute returns the earliest-registered route among those whose
\* pattern accepts the path, and null when none does; a pattern registered
\* again keeps the position of its first registration and takes the handler of
\* its last one.
C9_FirstMatchWins ==
    /\ []C9_TableOrder
    /\ [][\A path \in TablePaths : C9_Resolves(path)]_vars

\* C9 witness: /a/:i, then /a/b, then /a/:i again with another handler; /a/b
\* resolves through /a/:i with the new handler
C9_Witness ==
    /\ regLog = << [path |-> <<"/", "a", "/", ":", "i">>, handler |-> "h1"],
                   [path |-> <<"/", "a", "/", "b">>, handler |-> "h1"],
                   [path |-> <<"/", "a", "/", ":", "i">>, handler |-> "h2"] >>
    /\ found.path = <<"/", "a", "/", "b">>
    /\ found.route.path = <<"/", "a", "/", ":", "i">>
    /\ found.route.handler = "h2"

(***************************************************************************)
(* Properties of Route.match                                               *)
(***************************************************************************)
\* the segments of a pattern that starts with '/', from position i
RECURSIVE SegmentsOf(_, _)
SegmentsOf(path, i) ==
    IF i > Len(path) THEN <<>>
    ELSE <<SubSeq(path, i + 1, i + NonSlashRun(path, i + 1))>>
             \o SegmentsOf(path, i + 1 + NonSlashRun(path, i + 1))

\* The ways the segments k.. of a pattern cover the whole of s from si on, each
\* given as the sequence of <<name, text>> of its :name segments: a literal
\* covers itself, :name one non-empty run without '/', * any text.
RECURSIVE Coverings(_, _, _, _)
Coverings(segs, k, s, si) ==
    IF k > Len(segs) THEN (IF si = Len(s) + 1 THEN {<<>>} ELSE {})
    ELSE IF si > Len(s) \/ s[si] # "/" THEN {}
    ELSE LET seg == segs[k] IN
      IF seg = <<"*">>
        THEN UNION {Coverings(segs, k + 1, s, si + 1 + n) : n \in 0..(Len(s) - si)}
      ELSE IF seg[1] = ":"
        THEN UNION {{<<<<Tail(seg), SubSeq(s, si + 1, si + n)>>>> \o c :
                        c \in Coverings(segs, k + 1, s, si + 1 + n)} :
                    n \in 1..NonSlashRun(s, si + 1)}
      ELSE IF si + Len(seg) <= Len(s) /\ SubSeq(s, si + 1, si + Len(seg)) = seg
        THEN Coverings(segs, k + 1, s, si + 1 + Len(seg))
        ELSE {}

\* C10: match succeeds exactly when the pattern covers the whole path, and
\* then binds every :name to the text that its own segment covers.
C10_MatchBindsOwnPosition ==
    matched.pathname # NoPath =>
        LET cs == Coverings(SegmentsOf(routeObj.path, 1), 1, matched.pathname, 1)
        IN  /\ matched.ok <=> cs # {}
            /\ matched.ok =>
                   \E c \in cs :
                       /\ DOMAIN matched.params = {c[x][1] : x \in 1..Len(c)}
                       /\ \A x \in 1..Len(c) : matched.params[c[x][1]] = c[x][2]

(***************************************************************************)
(* Properties of the navigation log                                        *)
(***************************************************************************)
\* the log h after entries for the paths ps were added one by one, the oldest
\* entry leaving a log that holds 50
RECURSIVE LogAfter(_, _)
LogAfter(h, ps) ==
    IF ps = <<>> THEN h
    ELSE LogAfter(IF Len(h) < 50 THEN Append(h, Head(ps))
                                 ELSE Append(Tail(h), Head(ps)),
                  Tail(ps))

\* the paths of the handleNavigation calls that a step starts
StartedPaths ==
    [k \in 1..(Len(navs') - Len(navs)) |-> navs'[Len(navs) + k].path]

C11_LogBounded ==
    /\ Len(history) <= 50
    /\ historyIndex = Len(history) - 1

C11_OneEntryPerCall ==
    /\ Len(navs') >= Len(navs)
    /\ history' = LogAfter(history, StartedPaths)

\* C11: every handleNavigation call, whatever its outcome, adds one entry for
\* its path at the end of the log; the log never holds more than 50 entries,
\* and an entry added to a log of 50 pushes out the oldest one, the others
\* keeping their order.
C11_NavigationLog ==
    /\ []C11_LogBounded
    /\ [][C11_OneEntryPerCall]_vars

\* C11 witness: two calls were made on a log that held at least 49 entries, one
\* unmatched and one blocked, failed or successful: the log holds 50
C11_Witness ==
    /\ Len(history) = 50
    /\ Len(navs) >= 2
    /\ \E i \in 1..Len(navs) : navs[i].outcome = "unmatched"
    /\ \E i \in 1..Len(navs) : navs[i].outcome \in {"blocked", "error", "ok"}
    /\ history[50] = navs[Len(navs)].path

-----------------------------------------------------------------------------
\* Properties of the state store.  `last` holds the operation that returned
\* last: its name, its arguments, the store before it, the callback calls it
\* made and the error that escaped it.

\* what a value holds, whatever object it is held in
Content(v) == IF v.t = "object" THEN [isArray |-> v.isArray, props |-> v.props] ELSE v
StructurallyEqual(a, b) == Content(a) = Content(b)

Before(key) == ValueOf(last.before.state, key)

\* C12: a setState whose value is structurally equal to the current value of
\* the key, the same object or another one, is a no-op: no subscriber is
\* called, no history entry is added, nothing is written to storage and the
\* state keeps the object it held
C12_EqualValueNoOp ==
    (last.op = "setState" /\ StructurallyEqual(Before(last.args[1]), last.args[2]))
        => /\ last.calls = <<>>
           /\ stateHistory = last.before.history
           /\ storage = last.before.storage
           /\ state = last.before.state
           /\ subscribers = last.before.subscribers

\* setState('user', {id:1}) has been followed by setState('user', {id:1}) with
\* another object, subscribers being there: one history entry in total
C12_Witness ==
    /\ last.op = "setState"
    /\ last.args = <<"user", Obj(2, 1)>>
    /\ Before("user") = Obj(1, 1)
    /\ subscribers["user"] # <<>>
    /\ subscribers[Wildcard] # <<>>
    /\ Len(stateHistory) = 1
    /\ ValueOf(state, "user") = Obj(1, 1)


\* the subscribers registered when the operation was called that a change of
\* `key` concerns: those of the key in subscription order, then the wildcard ones
RegisteredFor(key) ==
    LET keyed == last.before.subscribers[key]
        wild == last.before.subscribers[Wildcard]
    IN  [i \in 1..(Len(keyed) + Len(wild)) |->
            IF i <= Len(keyed) THEN <<key, keyed[i]>>
            ELSE <<Wildcard, wild[i - Len(keyed)]>>]
\* the subscribers the operation has called, in call order
Called == [i \in 1..Len(last.calls) |-> <<last.calls[i].list, last.calls[i].callback>>]

\* C13: a setState that changes the value calls every subscriber registered at
\* the time of the call exactly once, those of the key before the wildcard
\* ones, with the new and the old value, and the wildcard ones with a state
\* that already holds the new value; this also when a subscriber unsubscribes
\* itself during the notification
C13_EverySubscriberOnce ==
    (last.op = "setState" /\ ~StructurallyEqual(Before(last.args[1]), last.args[2]))
        => /\ Called = RegisteredFor(last.args[1])
           /\ \A i \in 1..Len(last.calls) :
                 /\ last.calls[i].key = last.args[1]
                 /\ last.calls[i].newValue = last.args[2]
                 /\ last.calls[i].oldValue = Before(last.args[1])
                 /\ ValueOf(last.calls[i].snapshot, last.args[1]) = last.args[2]


\* the operations that change the state, and their run on a store
Mutations == {"setState", "batchUpdate", "removeState", "reset", "clearSensitiveData"}
Run(op, args, S) ==
    CASE op = "setState" -> setState(S, args[1], args[2])
      [] op = "batchUpdate" -> batchUpdate(S, args)
      [] op = "removeState" -> removeState(S, args[1])
      [] op = "reset" -> reset(S, args)
      [] op = "clearSensitiveData" -> clearSensitiveData(S)
\* the subscriber lists with every throwing subscriber replaced by one that returns
Quiet(subs) ==
    [k \in DOMAIN subs |->
        [i \in DOMAIN subs[k] |-> IF subs[k][i] = "throws" THEN "returns" ELSE subs[k][i]]]
Threw == \E i \in 1..Len(last.calls) : last.calls[i].threw

\* C14: what a subscriber throws during a state change is caught at that
\* subscriber: the error does not leave the operation, and the operation calls
\* the same subscribers with the same arguments and leaves the same state,
\* history and storage as it does when the subscriber returns instead
C14_SubscriberErrorCaught ==
    (last.op \in Mutations /\ Threw)
        => LET quiet == Run(last.op, last.args,
                            [last.before EXCEPT !.subscribers = Quiet(@)])
           IN  /\ last.error # "Error"
               /\ last.error = quiet.error
               /\ state = quiet.state
               /\ stateHistory = quiet.history
               /\ storage = quiet.storage
               /\ Quiet(subscribers) = quiet.subscribers
               /\ Len(last.calls) = Len(quiet.calls)
               /\ \A i \in 1..Len(last.calls) :
                     quiet.calls[i] =
                         [last.calls[i] EXCEPT !.threw = FALSE,
                             !.callback = IF @ = "throws" THEN "returns" ELSE @]

\* a persisted key has been set with a throwing subscriber ahead of another
\* one: both were called, the value is in the state, the log and the storage
C14_Witness ==
    /\ last.op = "setState" /\ last.args[1] = "theme"
    /\ Len(last.calls) = 2
    /\ last.calls[1].threw /\ ~last.calls[2].threw
    /\ last.error = Null
    /\ ValueOf(state, "theme") = last.args[2]
    /\ Len(stateHistory) = Len(last.before.history) + 1
    /\ storage["theme"] = JSONstringify(last.args[2])


\* the keys the operation changed or removed
ChangedKeys ==
    {k \in StateKeys :
        \/ InState(last.before.state, k) # InState(state, k)
        \/ ~StructurallyEqual(Before(k), ValueOf(state, k))}
\* the entries the operation added to the history, newest first
AddedEntries ==
    SubSeq(stateHistory, 1, Len(stateHistory) - Len(last.before.history))

\* C15: every operation that changes the state adds exactly one history entry
\* {key, oldValue, newValue} for each key it changes or removes, be it
\* setState, batchUpdate, removeState, reset or clearSensitiveData
C15_OneEntryPerChangedKey ==
    last.op \in Mutations
        => /\ Len(stateHistory) >= Len(last.before.history)
           /\ \A k \in ChangedKeys :
                 Cardinality({i \in 1..Len(AddedEntries) : AddedEntries[i].key = k}) = 1
           /\ \A i \in 1..Len(AddedEntries) :
                 AddedEntries[i].key \in ChangedKeys
                     => /\ AddedEntries[i].oldValue = Before(AddedEntries[i].key)
                        /\ AddedEntries[i].newValue = ValueOf(state, AddedEntries[i].key)


\* the number of entries the operation adds to the history
AddedCount ==
    CASE last.op = "setState" ->
             IF StructurallyEqual(Before(last.args[1]), last.args[2]) THEN 0 ELSE 1
      [] last.op = "removeState" ->
             IF InState(last.before.state, last.args[1]) THEN 1 ELSE 0
      [] last.op = "batchUpdate" -> Len(last.args)
      [] OTHER -> 0
\* the entries of the log before the operation that the operation keeps
KeptCount ==
    IF Len(last.before.history) + AddedCount > MaxHistorySize
    THEN MaxHistorySize - AddedCount
    ELSE Len(last.before.history)

\* C16: the history never holds more than 50 entries; an operation puts its
\* entries in front of the log, and of the entries that were there it keeps
\* the newest ones in their order, dropping the oldest when the log is full
C16_HistoryBounded ==
    /\ Len(stateHistory) <= MaxHistorySize
    /\ last.op \in Mutations
        => /\ Len(stateHistory) = AddedCount + KeptCount
           /\ SubSeq(stateHistory, AddedCount + 1, Len(stateHistory))
                  = SubSeq(last.before.history, 1, KeptCount)
           /\ \A i \in 1..AddedCount :
                 /\ stateHistory[i].oldValue = Before(stateHistory[i].key)
                 /\ stateHistory[i].newValue = ValueOf(state, stateHistory[i].key)

\* entries have been added to a full log, and its oldest entries are gone
C16_Witness ==
    /\ last.op = "batchUpdate"
    /\ Len(last.before.history) = MaxHistorySize
    /\ AddedCount = 2
    /\ Len(stateHistory) = MaxHistorySize
    /\ stateHistory[MaxHistorySize] = last.before.history[MaxHistorySize - 2]
    /\ stateHistory[MaxHistorySize] # last.before.history[MaxHistorySize]


\* storage and state agree on key k after the operation: the item is the JSON
\* text of the value in the state, written after the subscribers of the change
\* were called, or there is no item when the key is not in the state
Agree(k) ==
    IF InState(state, k)
    THEN /\ storage[k] = JSONstringify(ValueOf(state, k))
         /\ \A i \in 1..Len(last.calls) :
               last.calls[i].key = k => last.calls[i].stored[k] = last.before.storage[k]
    ELSE storage[k] = NoItem

\* C17: after an operation that changed or removed a key of the persisted set
\* (the keys setupAutoPersistence names), storage and state agree on that key
C17_StorageAgrees ==
    last.op \in Mutations => \A k \in AutoPersistedKeys \cap ChangedKeys : Agree(k)


\* C18: init() on a fresh StateManager, against a storage in which persisted
\* keys have been written by another StateManager, returns without an error
\* and leaves each of these keys in the state with the value that was written
C18_PersistedRoundTrip ==
    (last.op = "init" /\ last.before.state = <<>> /\ last.before.history = <<>>
        /\ \E k \in AutoPersistedKeys : last.before.storage[k] # NoItem)
        => /\ last.error = Null
           /\ \A k \in AutoPersistedKeys :
                 last.before.storage[k] # NoItem
                     => /\ InState(state, k)
                        /\ JSONstringify(ValueOf(state, k)) = last.before.storage[k]


\* setState called for each entry of updates in order, from store S
RECURSIVE SetEach(_, _, _)
SetEach(S, updates, i) ==
    IF i > Len(updates) \/ S.error # Null THEN S
    ELSE SetEach(setState(S, updates[i].key, updates[i].value), updates, i + 1)
\* the notifications among calls: who was called, about which key, with which
\* new and old value
Notifications(calls) ==
    {[callback |-> calls[i].callback, list |-> calls[i].list, key |-> calls[i].key,
      newValue |-> Content(calls[i].newValue), oldValue |-> Content(calls[i].oldValue)] :
        i \in 1..Len(calls)}
\* the entries of a history, without the identity of the objects in them
Entries(h) ==
    [i \in 1..Len(h) |-> [key |-> h[i].key, oldValue |-> Content(h[i].oldValue),
                          newValue |-> Content(h[i].newValue)]]

\* C19: batchUpdate(updates), on a store whose persisted set exists, leaves
\* what setState called for each key of updates in order leaves: the same
\* values in the state, the same history entries, the same notifications and
\* the same storage, also when a batched value is deep-equal to the current one
C19_BatchAsSetStates ==
    (last.op = "batchUpdate" /\ last.before.persistedKeys # NotSet)
        => LET each == SetEach(last.before, last.args, 1)
           IN  /\ \A k \in StateKeys :
                     /\ InState(state, k) = InState(each.state, k)
                     /\ StructurallyEqual(ValueOf(state, k), ValueOf(each.state, k))
               /\ Entries(stateHistory) = Entries(each.history)
               /\ Notifications(last.calls) = Notifications(each.calls)
               /\ storage = each.storage


\* C20: batchUpdate calls no subscriber before every key of the map is
\* written: each call reports as old value the value the key had before the
\* batch, and the state at the time of the call, which is the snapshot a
\* wildcard subscriber is given and what getState returns to any subscriber,
\* holds the new value of every batched key
C20_NotifiedAfterAllWritten ==
    last.op = "batchUpdate"
        => \A i \in 1..Len(last.calls) :
              /\ last.calls[i].oldValue = Before(last.calls[i].key)
              /\ \E j \in 1..Len(last.args) :
                    /\ last.args[j].key = last.calls[i].key
                    /\ last.args[j].value = last.calls[i].newValue
              /\ \A j \in 1..Len(last.args) :
                    ValueOf(last.calls[i].snapshot, last.args[j].key) = last.args[j].value

\* a batch of two keys has returned after calling a subscriber of its first
\* key and a wildcard subscriber for each key, the first key having had
\* another value before
C20_Witness ==
    /\ last.op = "batchUpdate"
    /\ Len(last.args) = 2
    /\ last.error = Null
    /\ Len(last.calls) = 3
    /\ last.calls[1].list = last.args[1].key
    /\ last.calls[2].list = Wildcard /\ last.calls[2].key = last.args[1].key
    /\ last.calls[3].list = Wildcard /\ last.calls[3].key = last.args[2].key
    /\ InState(last.before.state, last.args[1].key)
    /\ ~StructurallyEqual(Before(last.args[1].key), last.args[1].value)


\* how often the operation has called callback of list about key k, and how
\* often callback is in a list
TimesCalled(k, list, callback) ==
    Cardinality({i \in 1..Len(last.calls) :
        /\ last.calls[i].key = k
        /\ last.calls[i].list = list
        /\ last.calls[i].callback = callback})
TimesIn(subs, list, callback) ==
    Cardinality({i \in 1..Len(subs[list]) : subs[list][i] = callback})
\* every call of the operation reports the removal of a key of `removed`; a
\* subscription of such a key, or of '*', is called about it at most once, and
\* once when it is still there after the operation
RemovalsNotified(removed) ==
    /\ \A i \in 1..Len(last.calls) :
          /\ last.calls[i].key \in removed
          /\ last.calls[i].newValue = Undefined
          /\ last.calls[i].oldValue = Before(last.calls[i].key)
    /\ \A k \in removed : \A list \in {k, Wildcard}, callback \in Callbacks \cup {Validator} :
          /\ TimesCalled(k, list, callback) >= TimesIn(subscribers, list, callback)
          /\ TimesCalled(k, list, callback) <= TimesIn(last.before.subscribers, list, callback)
SensitiveSet == {last.before.sensitiveKeys[i] : i \in 1..Len(last.before.sensitiveKeys)}

\* C21: clearSensitiveData removes from the state exactly the sensitive keys
\* that are in it, calls the subscribers of each removed key once with
\* undefined and the previous value, removes the storage item of every
\* sensitive key, and leaves every other key as it was in state and storage,
\* with no call about it
C21_ClearSensitiveFrame ==
    last.op = "clearSensitiveData"
        => /\ \A k \in StateKeys :
                 InState(state, k) = (InState(last.before.state, k) /\ k \notin SensitiveSet)
           /\ \A k \in StateKeys \ SensitiveSet :
                 /\ ValueOf(state, k) = Before(k)
                 /\ storage[k] = last.before.storage[k]
           /\ \A k \in SensitiveSet : storage[k] = NoItem
           /\ RemovalsNotified({k \in SensitiveSet : InState(last.before.state, k)})


KeptSet == {last.args[i] : i \in 1..Len(last.args)}

\* C22: reset(keysToKeep) leaves in the state exactly the keys that were in it
\* and are listed in keysToKeep, with their values; it calls the subscribers
\* of every removed key once with undefined and the previous value and makes
\* no call about a kept key; it removes the storage item of every key that is
\* not listed and leaves the items of the listed keys
C22_ResetFrame ==
    last.op = "reset"
        => /\ \A k \in StateKeys :
                 InState(state, k) = (InState(last.before.state, k) /\ k \in KeptSet)
           /\ \A k \in KeptSet :
                 /\ ValueOf(state, k) = Before(k)
                 /\ storage[k] = last.before.storage[k]
           /\ \A k \in StateKeys \ KeptSet : storage[k] = NoItem
           /\ RemovalsNotified({k \in StateKeys \ KeptSet : InState(last.before.state, k)})


\* every subscription of key k, or of '*', is called about k at most once, and
\* once when it is still there after the operation, with the values given
NotifiedOf(k, newValue, oldValue) ==
    /\ \A i \in 1..Len(last.calls) :
          last.calls[i].key = k
              => last.calls[i].newValue = newValue /\ last.calls[i].oldValue = oldValue
    /\ \A list \in {k, Wildcard}, callback \in Callbacks \cup {Validator, Setter} :
          /\ TimesCalled(k, list, callback) >= TimesIn(subscribers, list, callback)
          /\ TimesCalled(k, list, callback) <= TimesIn(last.before.subscribers, list, callback)
\* the history has got one entry about key k, from oldValue to newValue
OneEntryOf(k, oldValue, newValue) ==
    /\ Len(stateHistory) >= Len(last.before.history)
    /\ Cardinality({i \in 1..Len(AddedEntries) : AddedEntries[i].key = k}) = 1
    /\ \E i \in 1..Len(AddedEntries) :
          AddedEntries[i] = [key |-> k, oldValue |-> oldValue, newValue |-> newValue]
\* when the key is a persisted one, storage holds the JSON text of value
Persisted(k, value) ==
    k \in AutoPersistedKeys => storage[k] = JSONstringify(value)

\* C23: a setState of ReentrantFrom during which a subscriber of that key
\* calls setState of ReentrantTo, both values changing: the subscribers of
\* each of the two keys are called once with its new and its old value, the
\* history has an entry for each, and state and storage hold both new values
\* when the outer setState has returned
C23_ReentrantOtherKey ==
    (/\ last.op = "setState"
     /\ last.args[1] = ReentrantFrom
     /\ TimesIn(last.before.subscribers, ReentrantFrom, Setter) = 1
     /\ ~StructurallyEqual(Before(ReentrantFrom), last.args[2])
     /\ ~StructurallyEqual(Before(ReentrantTo), last.args[2]))
        => /\ NotifiedOf(ReentrantFrom, last.args[2], Before(ReentrantFrom))
           /\ NotifiedOf(ReentrantTo, last.args[2], Before(ReentrantTo))
           /\ OneEntryOf(ReentrantFrom, Before(ReentrantFrom), last.args[2])
           /\ OneEntryOf(ReentrantTo, Before(ReentrantTo), last.args[2])
           /\ ValueOf(state, ReentrantFrom) = last.args[2]
           /\ ValueOf(state, ReentrantTo) = last.args[2]
           /\ Persisted(ReentrantFrom, last.args[2])
           /\ Persisted(ReentrantTo, last.args[2])


\* C24: a function returned by subscribe that is called again, having been
\* called in the step before, changes nothing: no subscription is removed by
\* the second call, also not another subscription of the same callback
C24_UnsubscribeIdempotent ==
    (last.op = "unsubscribe" /\ last.args[3])
        => /\ subscribers = last.before.subscribers
           /\ state = last.before.state
           /\ stateHistory = last.before.history
           /\ storage = last.before.storage


\* the callback a subscribe or addValidator call has registered
Subscribed == IF last.op = "addValidator" THEN Validator ELSE last.args[2]

\* C25: subscribe on a key that is in the state calls the callback once before
\* it returns, with the current value and undefined; on a key that is not in
\* the state it calls nothing; either way the callback is appended to the
\* subscribers of the key, no error leaves subscribe, and state, history and
\* storage are as before
C25_SubscribeCallsOnce ==
    last.op \in {"subscribe", "addValidator"}
        => /\ IF InState(last.before.state, last.args[1])
              THEN /\ Len(last.calls) = 1
                   /\ last.calls[1].callback = Subscribed
                   /\ last.calls[1].newValue = Before(last.args[1])
                   /\ last.calls[1].oldValue = Undefined
              ELSE last.calls = <<>>
           /\ subscribers = [last.before.subscribers EXCEPT
                                ![last.args[1]] = Append(@, Subscribed)]
           /\ last.error = Null
           /\ state = last.before.state
           /\ stateHistory = last.before.history
           /\ storage = last.before.storage

\* a callback that throws has been subscribed to a key that has a value, and
\* one to a key that has none
C25_Witness ==
    /\ last.op = "subscribe"
    /\ last.args = <<"user", "throws">>
    /\ InState(state, "user")
    /\ Len(last.calls) = 1 /\ last.calls[1].threw
    /\ subscribers["user"] = <<"returns", "throws">>


\* the calls of compute functions the operation has made
ComputeCalls == {i \in 1..Len(last.calls) : last.calls[i].list = "computeFn"}

\* C26: when the compute function of a derived value throws, in the initial
\* computation of addComputed or in a recomputation after a change of the
\* dependency, no error leaves addComputed or the operation that changed the
\* dependency, and the derived key is not in the state afterwards
C26_ComputeErrorLeavesUnset ==
    (/\ last.op \in {"addComputed", "setState", "removeState"}
     /\ ComputeCalls # {}
     /\ \A i \in ComputeCalls : last.calls[i].threw)
        => /\ last.error # "Error"
           /\ ~InState(state, DerivedKey)


-----------------------------------------------------------------------------
\* Properties of the view lifecycle.  `viewLog` counts the init() and
\* destroy() calls made on the view, the runs of onInit and onDestroy and the
\* times destroy() cleared the container.

\* C27: of the init() calls made on a view that was not destroyed and whose
\* onInit did not fail, only the first runs onInit, also when the second call
\* is made while the first is still awaiting onInit: onInit runs at most once.
C27_InitRunsOnInitOnce ==
    (viewLog.destroyCalls = 0 /\ ~viewLog.rejected) => viewLog.onInitRuns <= 1

\* C28: a view is never initialized and destroyed at once, whatever the
\* order of the init() and destroy() calls and also when destroy() runs
\* while an init() call is still pending.
C28_NeverInitializedAndDestroyed ==
    ~(view.isInitialized /\ view.isDestroyed)

\* C29: when destroy() has returned, whatever onDestroy did, no tracked
\* listener is attached any more, no tracked timeout or interval is live, the
\* three tracking lists are empty, the container is blank and the view is
\* marked destroyed; and no callback that was live when a destroy() call
\* returned is ever called.
C29_DestroyReleasesEverything ==
    /\ viewLog.op = "destroy" =>
          /\ Live(page) = {}
          /\ view.eventListeners = <<>>
          /\ view.timeouts = <<>>
          /\ view.intervals = <<>>
          /\ view.container = Blank
          /\ view.isDestroyed
    /\ ~viewLog.late

\* C30: however many destroy() calls are made on a view, only the first
\* calls onDestroy and only the first clears the container.
C30_DestroyRunsOnDestroyOnce ==
    viewLog.destroyCalls >= 1 =>
        viewLog.onDestroyRuns = 1 /\ viewLog.cleared <= 1


\* C31: no call of destroy() throws to its caller: an exception raised by
\* onDestroy or by a teardown step is caught inside destroy().
C31_DestroyNeverThrows ==
    viewLog.op = "destroy" => ~viewLog.error

\* a destroy() call in which onDestroy or a teardown step threw has returned
C31_Witness ==
    viewLog.op = "destroy" /\ viewLog.caught /\ ~viewLog.error


\* C32: when onInit throws or rejects, init() is rejected with that same
\* error and a view that was not initialized stays so; an init() call made
\* after such a failure on a view that is not initialized runs onInit again.
C32_FailedInitRejects ==
    [][/\ (awaiting' = awaiting - 1 /\ viewLog'.op = "onInit throws") =>
            /\ viewLog'.initError # Null
            /\ viewLog'.initError = viewLog'.thrown
            /\ view'.isInitialized = view.isInitialized
       /\ (viewLog'.initCalls = viewLog.initCalls + 1 /\ viewLog.rejected
             /\ ~view.isInitialized) =>
            /\ viewLog'.onInitRuns = viewLog.onInitRuns + 1
            /\ awaiting' = awaiting + 1]_vars

\* an init() call failed, and the init() call made after it runs onInit again
C32_Witness ==
    /\ viewLog.op = "init"
    /\ viewLog.rejected
    /\ viewLog.initError = viewLog.thrown
    /\ ~view.isInitialized
    /\ viewLog.onInitRuns = 2
    /\ awaiting = 1


-----------------------------------------------------------------------------
\* Properties of view loading

\* C33: when loadView has returned after the init() of its new view was
\* rejected, that view is not app.currentView, whatever the view name.
C33_FailedViewNotCurrent ==
    \A i \in 1..Len(loads) :
        loads[i].pc = "init failed" => currentView # loads[i].view

\* C34: under every interleaving of loadView calls, every view that loadView
\* constructed and that is not app.currentView is destroyed, and destroy()
\* was called on it before its replacement was constructed.
C34_OnlyCurrentViewAlive ==
    \A v \in 1..Len(views) :
        v # currentView => views[v].isDestroyed /\ views[v].destroyCalls >= 1


-----------------------------------------------------------------------------
\* Further properties of the navigation resolution

\* the call that the latest arrival made, when every arrival made one call
LatestCall == Len(navs)
OneCallEach ==
    /\ navs # <<>>
    /\ arrivals = Len(navs)
    /\ \A i \in 1..Len(navs) : navs[i].outcome # "unmatched"

\* C35: navigate(path) to a path with a route moves the browser to the path in
\* the step that starts the resolution, before a middleware has returned, and does not assign
\* currentRoute; a middleware that blocks leaves the browser where it is and
\* currentRoute as it was, so that after a blocked navigation to p the browser
\* is at p and currentRoute is not assigned by it; a following navigate(p)
\* without force changes nothing and makes no call.
C35_MovesFirst(p, r, f) ==
    (/\ Navigate(p, r, FALSE, f)
     /\ ~SamePath(normalizePath(p), location, f)
     /\ Matching(normalizePath(p)) # {})
        => /\ location' = normalizePath(p)
           /\ currentRoute' = currentRoute
           /\ Len(navs') > Len(navs)
           /\ navs'[Len(navs) + 1].path = normalizePath(p)
           /\ Len(navs'[Len(navs) + 1].steps) <= 1

C35_BlockKeeps(i) ==
    (GlobalMiddlewareReturn(i, "false") \/ RouteMiddlewareReturn(i, "false"))
        => UNCHANGED <<location, bhist, bidx, currentRoute, currentParams>>

C35_BlockedState ==
    (OneCallEach /\ BlockedByFalse(navs[LatestCall])) =>
        /\ location = navs[LatestCall].path
        /\ ~navs[LatestCall].wrote
        /\ currentRoute \in {NoPath} \cup
              {navs[j].path : j \in {k \in 1..(LatestCall - 1) : navs[k].wrote}}

C35_ThenNoOp(p, r, s) ==
    (/\ Navigate(p, r, s, FALSE)
     /\ \E i \in 1..Len(navs) :
            BlockedByFalse(navs[i]) /\ navs[i].path = location
     /\ normalizePath(p) = location)
        => UNCHANGED programVars

C35_BlockedThenNoOp ==
    /\ []C35_BlockedState
    /\ [][\A p \in NavPaths, r \in BOOLEAN, f \in BOOLEAN : C35_MovesFirst(p, r, f)]_vars
    /\ [][\A i \in NavIds : C35_BlockKeeps(i)]_vars
    /\ [][\A p \in NavPaths, r \in BOOLEAN, s \in BOOLEAN : C35_ThenNoOp(p, r, s)]_vars

\* a navigation was blocked by a middleware, the browser is at its path,
\* currentRoute is not, and a second navigate has arrived and made no call
C35_Witness ==
    /\ Len(navs) = 1
    /\ arrivals = 2
    /\ BlockedByFalse(navs[1])
    /\ location = navs[1].path
    /\ currentRoute # location
    /\ bhist = <<Root, location>>


\* C38: with no not-found handler and no route matching /dashboard, an
\* arrival whose path is unmatched makes at most one fallback navigation: it
\* replaces the current entry by /dashboard, the call for /dashboard is
\* unmatched too, and its own fallback stops at once because the browser is
\* at /dashboard already.
C38_Arrival ==
    (notFoundHandler = Null /\ Matching(Dashboard) = {} /\ Len(navs') > Len(navs)) =>
        LET n == Len(navs)
            first == navs'[n + 1]
        IN  /\ Len(navs') <= n + 2
            /\ \A i \in (n + 1)..Len(navs') : Count(navs'[i], "fallback") <= 1
            /\ first.outcome = "unmatched" =>
                  /\ location' = Dashboard
                  /\ bhist'[bidx'] = Dashboard
                  /\ bidx' <= bidx + 1
                  /\ Len(bhist') <= Len(bhist) + 1
                  /\ first.pc = "done"
                  /\ IF first.path = Dashboard
                     THEN Len(navs') = n + 1
                     ELSE /\ Len(navs') = n + 2
                          /\ navs'[n + 2].path = Dashboard
                          /\ navs'[n + 2].outcome = "unmatched"
                          /\ navs'[n + 2].pc = "done"

C38_FallbackStops == [][C38_Arrival]_vars

\* an unmatched path was resolved with no route for /dashboard: its call and
\* the call of the fallback are the only ones, and both have returned
C38_Witness ==
    /\ notFoundHandler = Null
    /\ Matching(Dashboard) = {}
    /\ arrivals = 1
    /\ Len(navs) = 2
    /\ navs[1].path # Dashboard
    /\ navs[2].path = Dashboard
    /\ navs[1].steps = <<<<"fallback", 0>>>>
    /\ navs[2].steps = <<<<"fallback", 0>>>>
    /\ navs[2].pc = "done"
    /\ location = Dashboard


\* C40: in every state historyIndex is the index of the last entry of the
\* navigation log (-1 for an empty log), so canGoForward() is false and a
\* goForward() call changes nothing: the browser does not go forward.
C40_IndexAtEnd ==
    /\ historyIndex = Len(history) - 1
    /\ ~canGoForward(history, historyIndex)

-----------------------------------------------------------------------------
\* Properties of the subscribers of POSApp

\* the calls of the callback in the last operation
CallsBy(callback) ==
    Cardinality({i \in 1..Len(last.calls) : last.calls[i].callback = callback})

\* C37: the subscribers that POSApp installs settle.  In every operation on
\* the store no call of the 'user' subscriber or of the 'networkStatus'
\* subscriber ends by exhausting the call stack; a setState of 'user' calls
\* the 'user' subscriber at most twice (once for the change and once for the
\* removal by clearSensitiveData), and a setState of 'networkStatus' calls
\* the 'networkStatus' subscriber at most once, whatever the state before.
C37_SubscribersSettle ==
    /\ \A i \in 1..Len(last.calls) :
          last.calls[i].callback \in {AuthSubscriber, NetworkSubscriber}
              => ~last.calls[i].threw
    /\ Len(last.calls) <= StackLimit
    /\ (last.op = "setState" /\ last.args[1] = "user")
          => CallsBy(AuthSubscriber) <= 2
    /\ (last.op = "setState" /\ last.args[1] = NetworkKey)
          => CallsBy(NetworkSubscriber) <= 1

\* setState('user', null) of a logged-in user has called the subscriber twice
\* and has left no user
C37_Witness ==
    /\ last.op = "setState"
    /\ last.args[1] = "user"
    /\ Falsy(last.args[2])
    /\ InState(last.before.state, "user")
    /\ ~Falsy(ValueOf(last.before.state, "user"))
    /\ CallsBy(AuthSubscriber) = 2
    /\ ~InState(state, "user")


-----------------------------------------------------------------------------
\* Properties of AuthView

\* C39: after authView.destroy() no function is attached to the 'keydown'
\* event of the document, and no key event is handled by a destroyed view.
C39_KeydownDetached ==
    /\ viewLog.op = "authDestroy" => page.keydown = {}
    /\ viewLog.op = "keydown" => ~viewLog.afterDestroy

-----------------------------------------------------------------------------
\* Properties of AuthManager.  authLog.loggedOut tells that a logout() has
\* resolved and that no login() was called and no login was answered since.

\* no session in memory, no refresh timer, no stored credentials
NoSession ==
    /\ auth.token = Null
    /\ auth.user = Null
    /\ ~auth.refreshTimer
    /\ credentials.pos_token = Null
    /\ credentials.pos_user = Null

\* C36: once logout() has resolved, and until the next login, the token and
\* the user are null, the refresh timer is stopped and pos_token and pos_user
\* are absent from the storage.
C36_LoggedOutStays == authLog.loggedOut => NoSession


=============================================================================
